---- MODULE Spec2Model ----
(***************************************************************************)
(* Model of the enhanced broadcast server (src/src/server.js) together     *)
(* with the parts of AuthService (src/src/auth/authService.js) and         *)
(* DatabaseManager (src/src/database/database.js) it calls.                *)
(*                                                                         *)
(* Node.js runs every handler on one thread: the code between two `await`s *)
(* is atomic, and a handler suspended on an `await` lets any other event   *)
(* (a message of any connection, a close, the resumption of another        *)
(* handler) run.  Each action below is one such atomic piece: the awaited  *)
(* database statement completes (or fails) and the handler runs up to its  *)
(* next `await`.  Handlers in flight are the records of `handlers`.        *)
(***************************************************************************)
EXTENDS Integers, Sequences, FiniteSets, Bags, TLC

(* ------------------------------ bounds -------------------------------- *)
NConns == 3
MaxCmds == 5
MaxInFlight == 2
MaxFaults == 1
MaxCloses == 1
MaxBroken == 1
MaxClock == 1

Conns == 1..NConns

(* ------------------------- values of the model ------------------------ *)
Names == {"alice", "bob", "carol", "dave", "al", ""}
Passwords == {"secret1", "hunter2", "abc", ""}
Contents == {"hello", "bye", "", "  "}

\* String.prototype.trim of the contents above
Trim(s) == IF s = "  " THEN "" ELSE s

\* the contents that are empty after trimming
BlankContents == {s \in Contents : Trim(s) = ""}

\* String.prototype.length of the names and passwords above
StrLen(s) ==
    CASE s = "alice" -> 5
      [] s = "bob" -> 3
      [] s = "carol" -> 5
      [] s = "dave" -> 4
      [] s = "al" -> 2
      [] s = "secret1" -> 7
      [] s = "hunter2" -> 7
      [] s = "abc" -> 3
      [] OTHER -> 0

\* bcrypt.hash / bcrypt.compare: the hash is not the password, and compare
\* accepts exactly the password that was hashed
BcryptHash(p) == <<"bcrypt", p>>
BcryptCompare(p, h) == h = BcryptHash(p)

VARIABLES
    readyState,   \* readyState[c]: "NONE" (not yet accepted), "OPEN", "CLOSING", "CLOSED"
    clients,      \* the keys of the Map this.clients
    clientInfo,   \* clientInfo[c]: the info object created for connection c
    outbox,       \* outbox[c]: the frames passed to ws.send of connection c
    users,        \* table users; the id of a row is its index
    messages,     \* table messages; the id of a row is its index
    sessions,     \* table user_sessions
    handlers,     \* the bag of suspended handler invocations
    nCmds,        \* number of inbound frames handled so far
    nFaults,      \* number of failed database statements so far
    stats,        \* this.stats
    wsThrows,     \* whether ws.send on a closed socket throws in this build
    unhandled,    \* a rejection escaped handleMessage
    indexScan,    \* whether SQLite walks idx_messages_timestamp for ORDER BY timestamp
    now,          \* CURRENT_TIMESTAMP, in whole seconds
    broken,       \* the open sockets whose send throws
    shut,         \* the progress of shutdown(): its position in the code and in the Map
    peer          \* peer[c]: the enhanced client at the other end of connection c

vars == <<readyState, clients, clientInfo, outbox, users, messages, sessions,
          handlers, nCmds, nFaults, stats, wsThrows, unhandled, indexScan, now, broken, shut, peer>>

(* ------------------------------ frames -------------------------------- *)
NoUser == 0

\* a token the server never signed (jwt.verify rejects it), and no token
ForgedToken == [userId |-> NoUser, username |-> "forged"]
NoToken == [userId |-> NoUser, username |-> ""]

Frame(type, content, id, uid, msgs) ==
    [type |-> type, content |-> content, id |-> id, uid |-> uid,
     msgs |-> msgs, token |-> NoToken, ok |-> TRUE]

AuthRequired == Frame("auth_required", "Please authenticate to join the chat", 0, NoUser, <<>>)
ErrorFrame(text) == Frame("error", text, 0, NoUser, <<>>)
JoinFrame(uid) == Frame("system", "has joined the chat", 0, uid, <<>>)
LeaveFrame(uid) == Frame("system", "has left the chat", 0, uid, <<>>)
WelcomeFrame(uid) == Frame("system", "Welcome", 0, uid, <<>>)
AuthSuccess(text, uid, token) ==
    [Frame("auth_success", text, 0, uid, <<>>) EXCEPT !.token = token]
BroadcastFrame(text, id, uid) == Frame("broadcast", text, id, uid, <<>>)
Confirmation(id) == Frame("confirmation", "Message sent successfully!", id, NoUser, <<>>)
HistoryFrame(text, msgs) == Frame("message_history", text, 0, NoUser, msgs)
OnlineUsersFrame(ids) == Frame("online_users", "Online users retrieved", 0, NoUser, ids)

NewInfo ==
    [isAuthenticated |-> FALSE, userId |-> NoUser, username |-> "", displayName |-> ""]

\* the enhanced client after its constructor: not authenticated, none of the
\* frames sent to it displayed yet, nothing of its own on the way to the hub
NewPeer == [isAuthenticated |-> FALSE, seen |-> 0, sending |-> ""]

(* ------------------------------ helpers ------------------------------- *)
IsOpen(c) == readyState[c] = "OPEN"

\* the Map lookup this.clients.get(ws) yields an authenticated entry
IsAuthed(c) == c \in clients /\ clientInfo[c].isAuthenticated

\* getAuthenticatedClientCount
getAuthenticatedClientCount == Cardinality({c \in clients : clientInfo[c].isAuthenticated})

\* the frame as ws.send of connection c takes it: written when the socket
\* is open and sound, lost otherwise
Sent(c, f) == [f EXCEPT !.ok = IsOpen(c) /\ c \notin broken]

\* ws.send(frame) on connection c
SendTo(ob, c, f) == [ob EXCEPT ![c] = Append(@, Sent(c, f))]

\* ws.send throws on a broken socket, and on a socket that is not open in
\* some builds of ws
SendThrows(c) == IF IsOpen(c) THEN c \in broken ELSE wsThrows

\* broadcastToOthers without the `client === sender` test
broadcastToOthersWithSender(ob, sender, f) ==
    [c \in Conns |->
        IF c \in clients /\ IsOpen(c) /\ clientInfo[c].isAuthenticated
        THEN Append(ob[c], Sent(c, f))
        ELSE ob[c]]

\* broadcastToOthers without the isAuthenticated test
broadcastToOthersUnauthenticated(ob, sender, f) ==
    [c \in Conns |->
        IF c \in clients /\ c # sender /\ IsOpen(c)
        THEN Append(ob[c], Sent(c, f))
        ELSE ob[c]]

\* broadcastToOthers without the readyState test
broadcastToOthersClosed(ob, sender, f) ==
    [c \in Conns |->
        IF c \in clients /\ c # sender /\ clientInfo[c].isAuthenticated
        THEN Append(ob[c], Sent(c, f))
        ELSE ob[c]]

\* broadcastToOthers putting the frame at the head of the recipient's queue
broadcastToOthersAtHead(ob, sender, f) ==
    [c \in Conns |->
        IF c \in clients /\ c # sender /\ IsOpen(c) /\ clientInfo[c].isAuthenticated
        THEN <<Sent(c, f)>> \o ob[c]
        ELSE ob[c]]

\* broadcastToOthers without the try/catch around client.send: the pass over
\* the Map (in the order of insertion) ends at the first send that throws
broadcastToOthersAborting(ob, sender, f) ==
    LET eligible(c) ==
            c \in clients /\ c # sender /\ IsOpen(c) /\ clientInfo[c].isAuthenticated
    IN [c \in Conns |->
           IF eligible(c) /\ ~\E d \in 1..(c - 1) : eligible(d) /\ d \in broken
           THEN Append(ob[c], Sent(c, f))
           ELSE ob[c]]

\* broadcastToOthers serving one client and leaving the rest of the pass to
\* a later turn of the event loop
broadcastToOthersOneAtATime(ob, sender, f) ==
    LET to == {c \in clients \ {sender} : IsOpen(c) /\ clientInfo[c].isAuthenticated}
    IN [c \in Conns |->
           IF c \in to /\ \A d \in to : c <= d
           THEN Append(ob[c], Sent(c, f))
           ELSE ob[c]]

\* broadcastToOthers: one synchronous pass over the Map
broadcastToOthers(ob, sender, f) ==
    [c \in Conns |->
        IF c \in clients /\ c # sender /\ IsOpen(c) /\ clientInfo[c].isAuthenticated
        THEN Append(ob[c], Sent(c, f))
        ELSE ob[c]]

\* broadcastToAll without the isAuthenticated test
broadcastToAllUnauthenticated(ob, f) ==
    [c \in Conns |->
        IF c \in clients /\ IsOpen(c)
        THEN Append(ob[c], Sent(c, f))
        ELSE ob[c]]

\* broadcastToAll: as above, the sender included
broadcastToAll(ob, f) ==
    [c \in Conns |->
        IF c \in clients /\ IsOpen(c) /\ clientInfo[c].isAuthenticated
        THEN Append(ob[c], Sent(c, f))
        ELSE ob[c]]

\* the rows of table users with the given username (UNIQUE: at most one)
UserIdsByName(n) == {i \in 1..Len(users) : users[i].username = n}

\* updateUserOnlineStatus: UPDATE users SET is_online = ? WHERE id = ?
updateUserOnlineStatus(us, uid, on) ==
    [i \in 1..Len(us) |-> IF i = uid THEN [us[i] EXCEPT !.is_online = on] ELSE us[i]]

\* message j comes before message i in ORDER BY m.timestamp DESC: the later
\* second first; within one second the newer row first when SQLite walks the
\* timestamp index backwards, the older row first when it sorts the rows
ComesBefore(j, i) ==
    \/ messages[j].timestamp > messages[i].timestamp
    \/ /\ messages[j].timestamp = messages[i].timestamp
       /\ IF indexScan THEN j > i ELSE j < i

\* a row of the result of getRecentMessages
HistoryRow(i) ==
    [id |-> i, content |-> messages[i].content,
     username |-> users[messages[i].sender_id].username]

\* getRecentMessages('main', limit, 0): JOIN users, ORDER BY m.timestamp DESC,
\* LIMIT
getRecentMessages(limit) ==
    LET joined == {i \in 1..Len(messages) : messages[i].sender_id \in 1..Len(users)}
        rank(i) == Cardinality({j \in joined : ComesBefore(j, i)}) + 1
        n == IF Cardinality(joined) < limit THEN Cardinality(joined) ELSE limit
    IN [p \in 1..n |-> HistoryRow(CHOOSE i \in joined : rank(i) = p)]

\* Array.prototype.reverse
Reverse(s) == [p \in 1..Len(s) |-> s[Len(s) + 1 - p]]

\* the limits of sendMessageHistory and (by default) of handleGetHistory
RecentLimit == 20
HistoryLimit == 50

\* getOnlineUsers
getOnlineUsers == SelectSeq([i \in 1..Len(users) |-> i], LAMBDA i : users[i].is_online)

\* the suspended invocations, and how many of them are command handlers
\* (a close handler is not a command)
H == BagToSet(handlers)
ClosesInFlight ==
    BagCardinality([h \in {x \in H : x.pc = "close_online"} |-> CopiesIn(h, handlers)])
InFlight == BagCardinality(handlers) - ClosesInFlight

HandlerRec(c, pc, name, pw, uid, content) ==
    [conn |-> c, pc |-> pc, name |-> name, pw |-> pw, uid |-> uid, content |-> content]

Started(rec) == handlers' = handlers (+) SetToBag({rec})
Finished(h) == handlers' = handlers (-) SetToBag({h})
MovedTo(h, rec) == handlers' = (handlers (-) SetToBag({h})) (+) SetToBag({rec})
Moved(h, pc) == MovedTo(h, [h EXCEPT !.pc = pc])

\* whether the next database statement may fail
FailChoices == IF nFaults < MaxFaults THEN {FALSE, TRUE} ELSE {FALSE}
Faulted(fail) == nFaults' = IF fail THEN nFaults + 1 ELSE nFaults

\* sendError(ws, text) as the last statement of a catch block of a handler
\* called from handleMessage: when the send throws, the exception leaves the
\* handler, handleMessage's own catch calls sendError again, and the second
\* throw rejects the promise nobody awaits
SendErrorAndEnd(c, text) ==
    IF SendThrows(c)
    THEN outbox' = outbox /\ unhandled' = TRUE
    ELSE outbox' = SendTo(outbox, c, ErrorFrame(text)) /\ unhandled' = unhandled

(* --------------------------- handleConnection ------------------------- *)
\* the WebSocket.Server accepts connections until wss.close()
Listening == shut.pc # "released"

Connect(c) ==
    /\ Listening
    /\ readyState[c] = "NONE"
    /\ \A d \in 1..(c-1) : readyState[d] # "NONE"
    /\ readyState' = [readyState EXCEPT ![c] = "OPEN"]
    /\ clients' = clients \cup {c}
    /\ clientInfo' = [clientInfo EXCEPT ![c] = NewInfo]
    /\ outbox' = [outbox EXCEPT ![c] = Append(@, AuthRequired)]
    /\ stats' = [stats EXCEPT !.totalConnections = @ + 1, !.currentConnections = @ + 1]
    /\ UNCHANGED <<users, messages, sessions, handlers, nCmds, nFaults, wsThrows, peer, indexScan, shut, now, broken, unhandled>>

\* an inbound frame of connection c is handled: ws emits 'message' only on an
\* open socket
Receives(c) ==
    /\ IsOpen(c)
    /\ nCmds < MaxCmds
    /\ nCmds' = nCmds + 1

CanStart == InFlight < MaxInFlight

\* the socket of an authenticated client breaks: it still reports OPEN and
\* its send throws from now on
Break(c) ==
    /\ IsAuthed(c) /\ IsOpen(c)
    /\ c \notin broken
    /\ Cardinality(broken) < MaxBroken
    /\ broken' = broken \cup {c}
    /\ UNCHANGED <<readyState, clients, clientInfo, outbox, users, messages, sessions,
                   handlers, nCmds, nFaults, stats, wsThrows, peer, unhandled, indexScan, shut, now>>

\* a second passes: CURRENT_TIMESTAMP has a resolution of one second
Tick ==
    /\ now < MaxClock
    /\ now' = now + 1
    /\ UNCHANGED <<readyState, clients, clientInfo, outbox, users, messages, sessions,
                   handlers, nCmds, nFaults, stats, wsThrows, peer, unhandled, indexScan, shut, broken>>

(* ------------------------ handleMessage: empty frame ------------------ *)
\* a frame that is empty after data.toString().trim() is ignored
RecvBlank(c) ==
    /\ Receives(c)
    /\ UNCHANGED <<readyState, clients, clientInfo, outbox, users, messages, sessions,
                   handlers, nFaults, stats, wsThrows, peer, indexScan, shut, now, broken, unhandled>>

(* ---------------- handleMessage: 'broadcast' and 'text' --------------- *)
\* handleMessage without the isAuthenticated test of the 'broadcast' case
RecvBroadcastUnchecked(c, content) ==
    /\ Receives(c)
    /\ CanStart
    /\ Started(HandlerRec(c, "bc_save", "", "", clientInfo[c].userId, content))
    /\ UNCHANGED <<readyState, clients, clientInfo, outbox, users, messages, sessions,
                   nFaults, stats, wsThrows, peer, indexScan, shut, now, broken, unhandled>>

\* content = "" stands for a JSON frame without usable content: the
\* initialiser `message.content || messageText` then reads messageText in
\* its own dead zone and the ReferenceError reaches handleMessage's catch
RecvBroadcast(c, content) ==
    /\ Receives(c)
    /\ IF IsAuthed(c)
       THEN IF content = ""
            THEN /\ outbox' = SendTo(outbox, c, ErrorFrame("Failed to process your message"))
                 /\ UNCHANGED handlers
            ELSE /\ CanStart
                 /\ Started(HandlerRec(c, "bc_save", "", "", clientInfo[c].userId, content))
                 /\ UNCHANGED outbox
       ELSE /\ outbox' = SendTo(outbox, c, ErrorFrame("Authentication required to send messages"))
            /\ UNCHANGED handlers
    /\ UNCHANGED <<readyState, clients, clientInfo, users, messages, sessions,
                   nFaults, stats, wsThrows, peer, indexScan, shut, now, broken, unhandled>>

\* handleBroadcastMessage with the fan-out outside the try block: a failed
\* save is reported to the sender and the message is fanned out all the same
BroadcastSavedFansOutAnyway(h, fail) ==
    /\ h \in H
    /\ h.pc = "bc_save"
    /\ fail \in FailChoices
    /\ Faulted(fail)
    /\ LET c == h.conn
           messageId == Len(messages) + 1
           messageObject == BroadcastFrame(h.content, messageId, clientInfo[c].userId)
           fanned == broadcastToOthers(outbox, c, messageObject)
       IN /\ messages' = IF fail THEN messages
                         ELSE Append(messages, [sender_id |-> h.uid, content |-> h.content, timestamp |-> now])
          /\ outbox' = SendTo(fanned, c, IF fail THEN ErrorFrame("Failed to save message")
                                         ELSE Confirmation(messageId))
          /\ stats' = IF fail THEN stats ELSE [stats EXCEPT !.totalMessages = @ + 1]
          /\ UNCHANGED unhandled
    /\ Finished(h)
    /\ UNCHANGED <<readyState, clients, clientInfo, users, sessions, nCmds, wsThrows, peer, indexScan, shut, now, broken>>

\* handleBroadcastMessage giving up, after the save, when the socket of the
\* sender is no longer open
BroadcastSavedUnlessClosed(h, fail) ==
    /\ h \in H
    /\ h.pc = "bc_save"
    /\ fail \in FailChoices
    /\ Faulted(fail)
    /\ LET c == h.conn
           messageId == Len(messages) + 1
           messageObject == BroadcastFrame(h.content, messageId, clientInfo[c].userId)
           fanned == IF IsOpen(c) THEN broadcastToOthers(outbox, c, messageObject) ELSE outbox
       IN IF fail
          THEN /\ SendErrorAndEnd(c, "Failed to save message")
               /\ UNCHANGED <<messages, stats>>
          ELSE /\ messages' = Append(messages,
                      [sender_id |-> h.uid, content |-> h.content, timestamp |-> now])
               /\ IF SendThrows(c)
                  THEN /\ outbox' = fanned
                       /\ unhandled' = TRUE
                       /\ UNCHANGED stats
                  ELSE /\ outbox' = SendTo(fanned, c, Confirmation(messageId))
                       /\ stats' = [stats EXCEPT !.totalMessages = @ + 1]
                       /\ UNCHANGED unhandled
    /\ Finished(h)
    /\ UNCHANGED <<readyState, clients, clientInfo, users, sessions, nCmds, wsThrows, peer, indexScan, shut, now, broken>>

\* handleBroadcastMessage sending the confirmation before the fan-out: a
\* throwing send to the sender ends the handler before broadcastToOthers
BroadcastSavedConfirmsFirst(h, fail) ==
    /\ h \in H
    /\ h.pc = "bc_save"
    /\ fail \in FailChoices
    /\ Faulted(fail)
    /\ LET c == h.conn
           messageId == Len(messages) + 1
           messageObject == BroadcastFrame(h.content, messageId, clientInfo[c].userId)
       IN IF fail
          THEN /\ SendErrorAndEnd(c, "Failed to save message")
               /\ UNCHANGED <<messages, stats>>
          ELSE /\ messages' = Append(messages,
                      [sender_id |-> h.uid, content |-> h.content, timestamp |-> now])
               /\ IF SendThrows(c)
                  THEN /\ outbox' = outbox
                       /\ unhandled' = TRUE
                       /\ UNCHANGED stats
                  ELSE /\ outbox' = broadcastToOthers(SendTo(outbox, c, Confirmation(messageId)),
                                                      c, messageObject)
                       /\ stats' = [stats EXCEPT !.totalMessages = @ + 1]
                       /\ UNCHANGED unhandled
    /\ Finished(h)
    /\ UNCHANGED <<readyState, clients, clientInfo, users, sessions, nCmds, wsThrows, peer, indexScan, shut, now, broken>>

\* handleBroadcastMessage whose catch only logs: a failed save is not
\* reported to the sender
BroadcastSavedSilentFailure(h, fail) ==
    /\ h \in H
    /\ h.pc = "bc_save"
    /\ fail \in FailChoices
    /\ Faulted(fail)
    /\ LET c == h.conn
           messageId == Len(messages) + 1
           messageObject == BroadcastFrame(h.content, messageId, clientInfo[c].userId)
           fanned == broadcastToOthers(outbox, c, messageObject)
       IN IF fail
          THEN UNCHANGED <<outbox, unhandled, messages, stats>>
          ELSE /\ messages' = Append(messages,
                      [sender_id |-> h.uid, content |-> h.content, timestamp |-> now])
               /\ IF SendThrows(c)
                  THEN /\ outbox' = fanned
                       /\ unhandled' = TRUE
                       /\ UNCHANGED stats
                  ELSE /\ outbox' = SendTo(fanned, c, Confirmation(messageId))
                       /\ stats' = [stats EXCEPT !.totalMessages = @ + 1]
                       /\ UNCHANGED unhandled
    /\ Finished(h)
    /\ UNCHANGED <<readyState, clients, clientInfo, users, sessions, nCmds, wsThrows, peer, indexScan, shut, now, broken>>

\* handleBroadcastMessage resumes from saveMessage
BroadcastSaved(h, fail) ==
    /\ h \in H
    /\ h.pc = "bc_save"
    /\ fail \in FailChoices
    /\ Faulted(fail)
    /\ LET c == h.conn
           messageId == Len(messages) + 1
           messageObject == BroadcastFrame(h.content, messageId, clientInfo[c].userId)
           fanned == broadcastToOthers(outbox, c, messageObject)
       IN IF fail
          THEN /\ SendErrorAndEnd(c, "Failed to save message")
               /\ UNCHANGED <<messages, stats>>
          ELSE /\ messages' = Append(messages,
                      [sender_id |-> h.uid, content |-> h.content, timestamp |-> now])
               /\ IF SendThrows(c)
                  THEN /\ outbox' = fanned
                       /\ unhandled' = TRUE
                       /\ UNCHANGED stats
                  ELSE /\ outbox' = SendTo(fanned, c, Confirmation(messageId))
                       /\ stats' = [stats EXCEPT !.totalMessages = @ + 1]
                       /\ UNCHANGED unhandled
    /\ Finished(h)
    /\ UNCHANGED <<readyState, clients, clientInfo, users, sessions, nCmds, wsThrows, peer, indexScan, shut, now, broken>>

(* ------------------------------ handleClose --------------------------- *)
\* the transport of c closes and ws emits 'close'
Close(c) ==
    /\ IsOpen(c)
    /\ Cardinality({d \in Conns : readyState[d] = "CLOSED"}) < MaxCloses
    /\ readyState' = [readyState EXCEPT ![c] = "CLOSED"]
    /\ IF IsAuthed(c)
       THEN /\ Started(HandlerRec(c, "close_online", "", "", clientInfo[c].userId, ""))
            /\ UNCHANGED <<clients, stats>>
       ELSE /\ clients' = clients \ {c}
            /\ stats' = [stats EXCEPT !.currentConnections = @ - 1]
            /\ UNCHANGED handlers
    /\ UNCHANGED <<clientInfo, outbox, users, messages, sessions, nCmds, nFaults,
                   wsThrows, peer, indexScan, shut, now, broken, unhandled>>

\* handleClose is called once more for a socket that has closed
CloseAgain(c) ==
    /\ readyState[c] = "CLOSED"
    /\ (stats.totalConnections - stats.currentConnections) + ClosesInFlight
          < Cardinality({d \in Conns : readyState[d] = "CLOSED"}) + MaxCloses
    /\ IF IsAuthed(c)
       THEN /\ Started(HandlerRec(c, "close_online", "", "", clientInfo[c].userId, ""))
            /\ UNCHANGED <<clients, stats>>
       ELSE /\ clients' = clients \ {c}
            /\ stats' = [stats EXCEPT !.currentConnections = @ - 1]
            /\ UNCHANGED handlers
    /\ UNCHANGED <<readyState, clientInfo, outbox, users, messages, sessions, nCmds, nFaults,
                   wsThrows, peer, indexScan, shut, now, broken, unhandled>>

\* handleClose resumes from updateUserOnlineStatus(userId, false)
CloseOnline(h, fail) ==
    /\ h \in H
    /\ h.pc = "close_online"
    /\ fail \in FailChoices
    /\ Faulted(fail)
    /\ LET c == h.conn
       IN /\ users' = IF fail THEN users
                      ELSE updateUserOnlineStatus(users, h.uid, FALSE)
          /\ outbox' = broadcastToOthers(outbox, c, LeaveFrame(clientInfo[c].userId))
          /\ clients' = clients \ {c}
          /\ stats' = [stats EXCEPT !.currentConnections = @ - 1]
    /\ Finished(h)
    /\ UNCHANGED <<readyState, clientInfo, messages, sessions, nCmds, wsThrows, peer, indexScan, shut, now, broken, unhandled>>

(* ------------------------------- shutdown ----------------------------- *)
\* client.close() of shutdown's loop: the closing handshake starts, and ws
\* emits 'close' when it ends
CloseSocket(rs, c) == [rs EXCEPT ![c] = IF @ = "OPEN" THEN "CLOSING" ELSE @]

\* The for-of loop of shutdown, from the entry after position p of the Map
\* up to its next await. The Map iterates in insertion order, which is the
\* order of the connection numbers, it skips the entries deleted meanwhile
\* and reaches those added meanwhile. An unauthenticated client is closed
\* at once; for an authenticated one the loop awaits
\* updateUserOnlineStatus(userId, false). After the last entry the Map is
\* cleared and shutdown awaits authService.close().
RECURSIVE ShutdownLoop(_, _)
ShutdownLoop(p, rs) ==
    LET rest == {c \in clients : c > p}
    IN IF rest = {}
       THEN [pc |-> "db", pos |-> p, uid |-> NoUser, rs |-> rs]
       ELSE LET c == CHOOSE d \in rest : \A e \in rest : d <= e
            IN IF clientInfo[c].isAuthenticated /\ clientInfo[c].userId # NoUser
               THEN [pc |-> "offline", pos |-> c, uid |-> clientInfo[c].userId, rs |-> rs]
               ELSE ShutdownLoop(c, CloseSocket(rs, c))

ShutdownRunsTo(r) ==
    /\ shut' = [pc |-> r.pc, pos |-> r.pos, uid |-> r.uid]
    /\ readyState' = r.rs
    /\ clients' = IF r.pc = "db" THEN {} ELSE clients

\* shutdown() is called (SIGINT, SIGTERM) and runs to its first await
Shutdown ==
    /\ shut.pc = "running"
    /\ ShutdownRunsTo(ShutdownLoop(0, readyState))
    /\ UNCHANGED <<clientInfo, outbox, users, messages, sessions, handlers, nCmds, nFaults,
                   stats, wsThrows, peer, unhandled, indexScan, now, broken>>

\* a rejection nobody handles reaches the process: the handler installed by
\* setupGracefulShutdown calls shutdown()
ShutdownOnRejection ==
    /\ unhandled
    /\ Shutdown

\* shutdown resumes from updateUserOnlineStatus(userId, false), whose failure
\* is caught and logged, closes that client and goes on with the loop
ShutdownOffline(fail) ==
    /\ shut.pc = "offline"
    /\ fail \in FailChoices
    /\ Faulted(fail)
    /\ users' = IF fail THEN users ELSE updateUserOnlineStatus(users, shut.uid, FALSE)
    /\ ShutdownRunsTo(ShutdownLoop(shut.pos, CloseSocket(readyState, shut.pos)))
    /\ UNCHANGED <<clientInfo, outbox, messages, sessions, handlers, nCmds,
                   stats, wsThrows, peer, unhandled, indexScan, now, broken>>

\* shutdown resumes from authService.close() and calls wss.close(), whose
\* callback ends the process
ShutdownRelease ==
    /\ shut.pc = "db"
    /\ shut' = [shut EXCEPT !.pc = "released"]
    /\ UNCHANGED <<readyState, clients, clientInfo, outbox, users, messages, sessions, handlers,
                   nCmds, nFaults, stats, wsThrows, peer, unhandled, indexScan, now, broken>>

\* the closing handshake of c ends: ws emits 'close' and handleClose runs up
\* to its await
CloseEvent(c) ==
    /\ readyState[c] = "CLOSING"
    /\ readyState' = [readyState EXCEPT ![c] = "CLOSED"]
    /\ IF IsAuthed(c)
       THEN /\ Started(HandlerRec(c, "close_online", "", "", clientInfo[c].userId, ""))
            /\ UNCHANGED <<clients, stats>>
       ELSE /\ clients' = clients \ {c}
            /\ stats' = [stats EXCEPT !.currentConnections = @ - 1]
            /\ UNCHANGED handlers
    /\ UNCHANGED <<clientInfo, outbox, users, messages, sessions, nCmds, nFaults,
                   wsThrows, peer, indexScan, shut, now, broken, unhandled>>

(* ------------------------------ handleLogin --------------------------- *)
\* loginUser checks that both credentials are present before its first await
RecvLogin(c, name, pw) ==
    /\ Receives(c)
    /\ IF name = "" \/ pw = ""
       THEN /\ outbox' = SendTo(outbox, c, ErrorFrame(
                    "Login failed: Username and password are required"))
            /\ UNCHANGED handlers
       ELSE /\ CanStart
            /\ Started(HandlerRec(c, "login_lookup", name, pw, NoUser, ""))
            /\ UNCHANGED outbox
    /\ UNCHANGED <<readyState, clients, clientInfo, users, messages, sessions,
                   nFaults, stats, wsThrows, peer, indexScan, shut, now, broken, unhandled>>

\* loginUser taking the id of the first row of users, whatever the username
LoginLookupFirstRow(h, fail) ==
    /\ h \in H
    /\ h.pc = "login_lookup"
    /\ fail \in FailChoices
    /\ Faulted(fail)
    /\ LET c == h.conn
           found == UserIdsByName(h.name)
       IN IF fail
          THEN SendErrorAndEnd(c, "Login failed: database error") /\ Finished(h)
          ELSE IF found = {} \/ \E i \in found : ~BcryptCompare(h.pw, users[i].password_hash)
          THEN SendErrorAndEnd(c, "Login failed: Invalid username or password") /\ Finished(h)
          ELSE /\ MovedTo(h, [h EXCEPT !.pc = "login_online", !.uid = 1])
               /\ UNCHANGED <<outbox, unhandled>>
    /\ UNCHANGED <<readyState, clients, clientInfo, users, messages, sessions, nCmds,
                   stats, wsThrows, peer, indexScan, shut, now, broken>>

\* loginUser telling an unknown username from a wrong password
LoginLookupTellsUnknown(h, fail) ==
    /\ h \in H
    /\ h.pc = "login_lookup"
    /\ fail \in FailChoices
    /\ Faulted(fail)
    /\ LET c == h.conn
           found == UserIdsByName(h.name)
       IN IF fail
          THEN SendErrorAndEnd(c, "Login failed: database error") /\ Finished(h)
          ELSE IF found = {}
          THEN SendErrorAndEnd(c, "Login failed: User not found") /\ Finished(h)
          ELSE IF \E i \in found : ~BcryptCompare(h.pw, users[i].password_hash)
          THEN SendErrorAndEnd(c, "Login failed: Invalid username or password") /\ Finished(h)
          ELSE /\ MovedTo(h, [h EXCEPT !.pc = "login_online", !.uid = CHOOSE i \in found : TRUE])
               /\ UNCHANGED <<outbox, unhandled>>
    /\ UNCHANGED <<readyState, clients, clientInfo, users, messages, sessions, nCmds,
                   stats, wsThrows, peer, indexScan, shut, now, broken>>

\* loginUser without bcrypt.compare
LoginLookupAnyPassword(h, fail) ==
    /\ h \in H
    /\ h.pc = "login_lookup"
    /\ fail \in FailChoices
    /\ Faulted(fail)
    /\ LET c == h.conn
           found == UserIdsByName(h.name)
       IN IF fail
          THEN SendErrorAndEnd(c, "Login failed: database error") /\ Finished(h)
          ELSE IF found = {}
          THEN SendErrorAndEnd(c, "Login failed: Invalid username or password") /\ Finished(h)
          ELSE /\ MovedTo(h, [h EXCEPT !.pc = "login_online", !.uid = CHOOSE i \in found : TRUE])
               /\ UNCHANGED <<outbox, unhandled>>
    /\ UNCHANGED <<readyState, clients, clientInfo, users, messages, sessions, nCmds,
                   stats, wsThrows, peer, indexScan, shut, now, broken>>

\* loginUser resumes from getUserByUsername and bcrypt.compare
LoginLookup(h, fail) ==
    /\ h \in H
    /\ h.pc = "login_lookup"
    /\ fail \in FailChoices
    /\ Faulted(fail)
    /\ LET c == h.conn
           found == UserIdsByName(h.name)
       IN IF fail
          THEN SendErrorAndEnd(c, "Login failed: database error") /\ Finished(h)
          ELSE IF found = {} \/ \E i \in found : ~BcryptCompare(h.pw, users[i].password_hash)
          THEN SendErrorAndEnd(c, "Login failed: Invalid username or password") /\ Finished(h)
          ELSE /\ MovedTo(h, [h EXCEPT !.pc = "login_online", !.uid = CHOOSE i \in found : TRUE])
               /\ UNCHANGED <<outbox, unhandled>>
    /\ UNCHANGED <<readyState, clients, clientInfo, users, messages, sessions, nCmds,
                   stats, wsThrows, peer, indexScan, shut, now, broken>>

\* loginUser resumes from updateUserOnlineStatus(user.id, true) and
\* updateUserLastSeen
LoginOnline(h, fail) ==
    /\ h \in H
    /\ h.pc = "login_online"
    /\ fail \in FailChoices
    /\ Faulted(fail)
    /\ IF fail
       THEN /\ SendErrorAndEnd(h.conn, "Login failed: database error")
            /\ Finished(h)
            /\ UNCHANGED users
       ELSE /\ users' = updateUserOnlineStatus(users, h.uid, TRUE)
            /\ Moved(h, "login_session")
            /\ UNCHANGED <<outbox, unhandled>>
    /\ UNCHANGED <<readyState, clients, clientInfo, messages, sessions, nCmds,
                   stats, wsThrows, peer, indexScan, shut, now, broken>>

\* generateToken: the token is bound to the user
generateToken(uid, name) == [userId |-> uid, username |-> name]

\* handleLogin / handleRegistration taking the id of the row inserted last,
\* not the id its own call returned
AuthSucceededLastRow(h, text, errtext, nextpc) ==
    LET c == h.conn
        uid == Len(users)
    IN IF SendThrows(c)
       THEN /\ unhandled' = TRUE
            /\ Finished(h)
            /\ UNCHANGED <<outbox, clientInfo>>
       ELSE IF c \notin clients
       THEN /\ outbox' = SendTo(SendTo(outbox, c, AuthSuccess(text, uid, generateToken(uid, h.name))), c,
                                ErrorFrame(errtext))
            /\ Finished(h)
            /\ UNCHANGED <<unhandled, clientInfo>>
       ELSE /\ outbox' = SendTo(outbox, c, AuthSuccess(text, uid, generateToken(uid, h.name)))
            /\ clientInfo' = [clientInfo EXCEPT ![c] =
                   [isAuthenticated |-> TRUE, userId |-> uid,
                    username |-> users[uid].username,
                    displayName |-> users[uid].display_name]]
            /\ Moved(h, nextpc)
            /\ UNCHANGED unhandled

\* handleLogin / handleRegistration putting the entry back into the Map when
\* it is gone
AuthSucceededSetsEntry(h, text, errtext, nextpc) ==
    LET c == h.conn
        uid == h.uid
    IN IF SendThrows(c)
       THEN /\ unhandled' = TRUE
            /\ Finished(h)
            /\ UNCHANGED <<outbox, clientInfo>>
       ELSE /\ outbox' = SendTo(outbox, c, AuthSuccess(text, uid, generateToken(uid, h.name)))
            /\ clientInfo' = [clientInfo EXCEPT ![c] =
                   [isAuthenticated |-> TRUE, userId |-> uid,
                    username |-> users[uid].username,
                    displayName |-> users[uid].display_name]]
            /\ Moved(h, nextpc)
            /\ UNCHANGED unhandled

\* the statements of handleLogin / handleRegistration between the return of
\* loginUser / registerUser and the next await: send auth_success, then
\* update the Map entry (a TypeError when the entry is gone)
AuthSucceeded(h, text, errtext, nextpc) ==
    LET c == h.conn
        uid == h.uid
    IN IF SendThrows(c)
       THEN /\ unhandled' = TRUE
            /\ Finished(h)
            /\ UNCHANGED <<outbox, clientInfo>>
       ELSE IF c \notin clients
       THEN /\ outbox' = SendTo(SendTo(outbox, c, AuthSuccess(text, uid, generateToken(uid, h.name))), c,
                                ErrorFrame(errtext))
            /\ Finished(h)
            /\ UNCHANGED <<unhandled, clientInfo>>
       ELSE /\ outbox' = SendTo(outbox, c, AuthSuccess(text, uid, generateToken(uid, h.name)))
            /\ clientInfo' = [clientInfo EXCEPT ![c] =
                   [isAuthenticated |-> TRUE, userId |-> uid,
                    username |-> users[uid].username,
                    displayName |-> users[uid].display_name]]
            /\ Moved(h, nextpc)
            /\ UNCHANGED unhandled

\* loginUser resumes from createSession and returns to handleLogin
LoginSession(h, fail) ==
    /\ h \in H
    /\ h.pc = "login_session"
    /\ fail \in FailChoices
    /\ Faulted(fail)
    /\ IF fail
       THEN /\ SendErrorAndEnd(h.conn, "Login failed: database error")
            /\ Finished(h)
            /\ UNCHANGED <<sessions, clientInfo>>
       ELSE /\ sessions' = sessions \cup {generateToken(h.uid, h.name)}
            /\ AuthSucceeded(h, "Login successful",
                             "Login failed: Cannot set properties of undefined", "login_history")
    /\ UNCHANGED <<readyState, clients, users, messages, nCmds, stats, wsThrows, peer, indexScan, shut, now, broken>>

\* the join notice fanned out by broadcastToAll, the acting client included
HistoryThenJoinAll(h, fail) ==
    LET c == h.conn
        sent == IF fail \/ SendThrows(c) THEN outbox
                ELSE SendTo(outbox, c, HistoryFrame("Recent messages",
                                                    Reverse(getRecentMessages(RecentLimit))))
    IN outbox' = broadcastToAll(sent, JoinFrame(h.uid))

\* sendMessageHistory resumes from getRecentMessages (its own try/catch
\* swallows a failed query and a failed send), then the join notice is
\* fanned out
HistoryThenJoin(h, fail) ==
    LET c == h.conn
        sent == IF fail \/ SendThrows(c) THEN outbox
                ELSE SendTo(outbox, c, HistoryFrame("Recent messages",
                                                    Reverse(getRecentMessages(RecentLimit))))
    IN outbox' = broadcastToOthers(sent, c, JoinFrame(h.uid))

LoginHistory(h, fail) ==
    /\ h \in H
    /\ h.pc = "login_history"
    /\ fail \in FailChoices
    /\ Faulted(fail)
    /\ HistoryThenJoin(h, fail)
    /\ Finished(h)
    /\ UNCHANGED <<readyState, clients, clientInfo, users, messages, sessions, nCmds,
                   stats, wsThrows, peer, indexScan, shut, now, broken, unhandled>>

(* --------------------------- handleRegistration ----------------------- *)
\* registerUser without the checks of its input
RecvRegisterUnvalidated(c, name, pw) ==
    /\ Receives(c)
    /\ CanStart
    /\ Started(HandlerRec(c, "reg_lookup", name, pw, NoUser, ""))
    /\ UNCHANGED <<readyState, clients, clientInfo, outbox, users, messages, sessions,
                   nFaults, stats, wsThrows, peer, indexScan, shut, now, broken, unhandled>>

\* registerUser validates its input before its first await
RecvRegister(c, name, pw) ==
    /\ Receives(c)
    /\ IF name = "" \/ pw = ""
       THEN /\ outbox' = SendTo(outbox, c, ErrorFrame(
                    "Registration failed: Username and password are required"))
            /\ UNCHANGED handlers
       ELSE IF StrLen(name) < 3
       THEN /\ outbox' = SendTo(outbox, c, ErrorFrame(
                    "Registration failed: Username must be at least 3 characters long"))
            /\ UNCHANGED handlers
       ELSE IF StrLen(pw) < 6
       THEN /\ outbox' = SendTo(outbox, c, ErrorFrame(
                    "Registration failed: Password must be at least 6 characters long"))
            /\ UNCHANGED handlers
       ELSE /\ CanStart
            /\ Started(HandlerRec(c, "reg_lookup", name, pw, NoUser, ""))
            /\ UNCHANGED outbox
    /\ UNCHANGED <<readyState, clients, clientInfo, users, messages, sessions,
                   nFaults, stats, wsThrows, peer, indexScan, shut, now, broken, unhandled>>

\* registerUser resumes from getUserByUsername
RegLookup(h, fail) ==
    /\ h \in H
    /\ h.pc = "reg_lookup"
    /\ fail \in FailChoices
    /\ Faulted(fail)
    /\ IF fail
       THEN SendErrorAndEnd(h.conn, "Registration failed: database error") /\ Finished(h)
       ELSE IF UserIdsByName(h.name) # {}
       THEN SendErrorAndEnd(h.conn, "Registration failed: Username already exists")
            /\ Finished(h)
       ELSE Moved(h, "reg_create") /\ UNCHANGED <<outbox, unhandled>>
    /\ UNCHANGED <<readyState, clients, clientInfo, users, messages, sessions, nCmds,
                   stats, wsThrows, peer, indexScan, shut, now, broken>>

\* createUser: INSERT INTO users; username is UNIQUE
createUser(h) ==
    Append(users, [username |-> h.name,
                   password_hash |-> BcryptHash(h.pw),
                   display_name |-> h.name,
                   is_online |-> FALSE])

\* createUser on a table whose username column is not UNIQUE
RegCreateNotUnique(h, fail) ==
    /\ h \in H
    /\ h.pc = "reg_create"
    /\ fail \in FailChoices
    /\ Faulted(fail)
    /\ IF fail
       THEN /\ SendErrorAndEnd(h.conn, "Registration failed: database error")
            /\ Finished(h)
            /\ UNCHANGED users
       ELSE /\ users' = createUser(h)
            /\ MovedTo(h, [h EXCEPT !.pc = "reg_session", !.uid = Len(users) + 1])
            /\ UNCHANGED <<outbox, unhandled>>
    /\ UNCHANGED <<readyState, clients, clientInfo, messages, sessions, nCmds,
                   stats, wsThrows, peer, indexScan, shut, now, broken>>

\* registerUser resumes from bcrypt.hash and createUser
RegCreate(h, fail) ==
    /\ h \in H
    /\ h.pc = "reg_create"
    /\ fail \in FailChoices
    /\ Faulted(fail)
    /\ IF fail
       THEN /\ SendErrorAndEnd(h.conn, "Registration failed: database error")
            /\ Finished(h)
            /\ UNCHANGED users
       ELSE IF UserIdsByName(h.name) # {}
       THEN /\ SendErrorAndEnd(h.conn, "Registration failed: Username already exists")
            /\ Finished(h)
            /\ UNCHANGED users
       ELSE /\ users' = createUser(h)
            /\ MovedTo(h, [h EXCEPT !.pc = "reg_session", !.uid = Len(users) + 1])
            /\ UNCHANGED <<outbox, unhandled>>
    /\ UNCHANGED <<readyState, clients, clientInfo, messages, sessions, nCmds,
                   stats, wsThrows, peer, indexScan, shut, now, broken>>

\* registerUser resumes from createSession and returns to handleRegistration
RegSession(h, fail) ==
    /\ h \in H
    /\ h.pc = "reg_session"
    /\ fail \in FailChoices
    /\ Faulted(fail)
    /\ IF fail
       THEN /\ SendErrorAndEnd(h.conn, "Registration failed: database error")
            /\ Finished(h)
            /\ UNCHANGED <<sessions, clientInfo>>
       ELSE /\ sessions' = sessions \cup {generateToken(h.uid, h.name)}
            /\ AuthSucceeded(h, "Registration successful",
                             "Registration failed: Cannot set properties of undefined",
                             "reg_online")
    /\ UNCHANGED <<readyState, clients, users, messages, nCmds, stats, wsThrows, peer, indexScan, shut, now, broken>>

\* handleRegistration resumes from updateUserOnlineStatus(userId, true)
RegOnline(h, fail) ==
    /\ h \in H
    /\ h.pc = "reg_online"
    /\ fail \in FailChoices
    /\ Faulted(fail)
    /\ IF fail
       THEN /\ SendErrorAndEnd(h.conn, "Registration failed: database error")
            /\ Finished(h)
            /\ UNCHANGED users
       ELSE /\ users' = updateUserOnlineStatus(users, h.uid, TRUE)
            /\ Moved(h, "reg_history")
            /\ UNCHANGED <<outbox, unhandled>>
    /\ UNCHANGED <<readyState, clients, clientInfo, messages, sessions, nCmds,
                   stats, wsThrows, peer, indexScan, shut, now, broken>>

RegHistory(h, fail) ==
    /\ h \in H
    /\ h.pc = "reg_history"
    /\ fail \in FailChoices
    /\ Faulted(fail)
    /\ HistoryThenJoin(h, fail)
    /\ Finished(h)
    /\ UNCHANGED <<readyState, clients, clientInfo, users, messages, sessions, nCmds,
                   stats, wsThrows, peer, indexScan, shut, now, broken, unhandled>>

(* ------------------------------ handleLogout -------------------------- *)
\* handleLogout runs up to its await
handleLogout(c) ==
    /\ Receives(c)
    /\ IF IsAuthed(c)
       THEN /\ CanStart
            /\ Started(HandlerRec(c, "logout_online", "", "", clientInfo[c].userId, ""))
       ELSE UNCHANGED handlers
    /\ UNCHANGED <<readyState, clients, clientInfo, outbox, users, messages, sessions,
                   nFaults, stats, wsThrows, indexScan, shut, now, broken, unhandled>>

\* a logout frame of some peer arrives
RecvLogout(c) ==
    /\ handleLogout(c)
    /\ UNCHANGED peer

\* handleLogout resumes from updateUserOnlineStatus(userId, false); its catch
\* only logs
LogoutOnline(h, fail) ==
    /\ h \in H
    /\ h.pc = "logout_online"
    /\ fail \in FailChoices
    /\ Faulted(fail)
    /\ LET c == h.conn
       IN IF fail
          THEN UNCHANGED <<users, outbox>>
          ELSE /\ users' = updateUserOnlineStatus(users, h.uid, FALSE)
               /\ outbox' = broadcastToOthers(outbox, c, LeaveFrame(clientInfo[c].userId))
    /\ Finished(h)
    /\ UNCHANGED <<readyState, clients, clientInfo, messages, sessions, nCmds,
                   stats, wsThrows, peer, indexScan, shut, now, broken, unhandled>>

(* ------------------ handleGetHistory, handleGetOnlineUsers ------------ *)
RecvGetHistory(c) ==
    /\ Receives(c)
    /\ CanStart
    /\ Started(HandlerRec(c, "hist_get", "", "", NoUser, ""))
    /\ UNCHANGED <<readyState, clients, clientInfo, outbox, users, messages, sessions,
                   nFaults, stats, wsThrows, peer, indexScan, shut, now, broken, unhandled>>

\* handleGetHistory answering through broadcastToAll
GetHistoryDoneToAll(h, fail) ==
    /\ h \in H
    /\ h.pc = "hist_get"
    /\ fail \in FailChoices
    /\ Faulted(fail)
    /\ LET c == h.conn
       IN IF fail \/ SendThrows(c)
          THEN SendErrorAndEnd(c, "Failed to retrieve message history")
          ELSE /\ outbox' = broadcastToAll(SendTo(outbox, c,
                          HistoryFrame("Message history retrieved",
                                       Reverse(getRecentMessages(HistoryLimit)))),
                          HistoryFrame("Message history retrieved",
                                       Reverse(getRecentMessages(HistoryLimit))))
               /\ UNCHANGED unhandled
    /\ Finished(h)
    /\ UNCHANGED <<readyState, clients, clientInfo, users, messages, sessions, nCmds,
                   stats, wsThrows, peer, indexScan, shut, now, broken>>

\* handleGetHistory resumes from getRecentMessages; the send is inside the try
GetHistoryDone(h, fail) ==
    /\ h \in H
    /\ h.pc = "hist_get"
    /\ fail \in FailChoices
    /\ Faulted(fail)
    /\ LET c == h.conn
       IN IF fail \/ SendThrows(c)
          THEN SendErrorAndEnd(c, "Failed to retrieve message history")
          ELSE /\ outbox' = SendTo(outbox, c,
                          HistoryFrame("Message history retrieved",
                                       Reverse(getRecentMessages(HistoryLimit))))
               /\ UNCHANGED unhandled
    /\ Finished(h)
    /\ UNCHANGED <<readyState, clients, clientInfo, users, messages, sessions, nCmds,
                   stats, wsThrows, peer, indexScan, shut, now, broken>>

RecvGetOnlineUsers(c) ==
    /\ Receives(c)
    /\ CanStart
    /\ Started(HandlerRec(c, "online_get", "", "", NoUser, ""))
    /\ UNCHANGED <<readyState, clients, clientInfo, outbox, users, messages, sessions,
                   nFaults, stats, wsThrows, peer, indexScan, shut, now, broken, unhandled>>

GetOnlineUsersDone(h, fail) ==
    /\ h \in H
    /\ h.pc = "online_get"
    /\ fail \in FailChoices
    /\ Faulted(fail)
    /\ LET c == h.conn
       IN IF fail \/ SendThrows(c)
          THEN SendErrorAndEnd(c, "Failed to retrieve online users")
          ELSE /\ outbox' = SendTo(outbox, c, OnlineUsersFrame(getOnlineUsers))
               /\ UNCHANGED unhandled
    /\ Finished(h)
    /\ UNCHANGED <<readyState, clients, clientInfo, users, messages, sessions, nCmds,
                   stats, wsThrows, peer, indexScan, shut, now, broken>>

(* ---------------------- handleMessage: default case ------------------- *)
\* handleMessage whose default case tells every other client as well
RecvUnknownToAll(c) ==
    /\ Receives(c)
    /\ outbox' = broadcastToAll(outbox, ErrorFrame("Unknown message type"))
    /\ UNCHANGED <<readyState, clients, clientInfo, users, messages, sessions, handlers,
                   nFaults, stats, wsThrows, peer, indexScan, shut, now, broken, unhandled>>

RecvUnknown(c) ==
    /\ Receives(c)
    /\ outbox' = SendTo(outbox, c, ErrorFrame("Unknown message type"))
    /\ UNCHANGED <<readyState, clients, clientInfo, users, messages, sessions, handlers,
                   nFaults, stats, wsThrows, peer, indexScan, shut, now, broken, unhandled>>

(* -------------------------- handleAuthentication ---------------------- *)
\* the tokens a peer can present: any the server has signed, or a forged one
Tokens == {generateToken(i, users[i].username) : i \in 1..Len(users)} \cup {ForgedToken, NoToken}

RecvAuth(c, token) ==
    /\ Receives(c)
    /\ IF token = NoToken
       THEN /\ outbox' = SendTo(outbox, c, ErrorFrame("Authentication token required"))
            /\ UNCHANGED handlers
       ELSE IF token = ForgedToken
       THEN /\ outbox' = SendTo(outbox, c, ErrorFrame("Authentication failed: Invalid token"))
            /\ UNCHANGED handlers
       ELSE /\ CanStart
            /\ Started(HandlerRec(c, "auth_session", token.username, "", token.userId, ""))
            /\ UNCHANGED outbox
    /\ UNCHANGED <<readyState, clients, clientInfo, users, messages, sessions,
                   nFaults, stats, wsThrows, peer, indexScan, shut, now, broken, unhandled>>

\* validateToken trusting the signature of the token alone, without looking
\* for its session
AuthSessionUnchecked(h, fail) ==
    /\ h \in H
    /\ h.pc = "auth_session"
    /\ fail \in FailChoices
    /\ Faulted(fail)
    /\ LET c == h.conn
           uid == h.uid
       IN IF fail
          THEN /\ SendErrorAndEnd(c, "Authentication failed: database error")
               /\ Finished(h)
               /\ UNCHANGED clientInfo
          ELSE IF c \notin clients
          THEN /\ SendErrorAndEnd(c, "Authentication failed: Cannot set properties of undefined")
               /\ Finished(h)
               /\ UNCHANGED clientInfo
          ELSE /\ clientInfo' = [clientInfo EXCEPT ![c] =
                      [isAuthenticated |-> TRUE, userId |-> uid,
                       username |-> users[uid].username,
                       displayName |-> users[uid].display_name]]
               /\ Moved(h, "auth_online")
               /\ UNCHANGED <<outbox, unhandled>>
    /\ UNCHANGED <<readyState, clients, users, messages, sessions, nCmds, stats, wsThrows, peer, indexScan, shut, now, broken>>

\* validateToken resumes from validateSession and getUserById, and
\* handleAuthentication updates the Map entry
AuthSession(h, fail) ==
    /\ h \in H
    /\ h.pc = "auth_session"
    /\ fail \in FailChoices
    /\ Faulted(fail)
    /\ LET c == h.conn
           uid == h.uid
       IN IF fail
          THEN /\ SendErrorAndEnd(c, "Authentication failed: database error")
               /\ Finished(h)
               /\ UNCHANGED clientInfo
          ELSE IF generateToken(uid, h.name) \notin sessions
          THEN /\ SendErrorAndEnd(c, "Authentication failed: Session expired or invalid")
               /\ Finished(h)
               /\ UNCHANGED clientInfo
          ELSE IF c \notin clients
          THEN /\ SendErrorAndEnd(c, "Authentication failed: Cannot set properties of undefined")
               /\ Finished(h)
               /\ UNCHANGED clientInfo
          ELSE /\ clientInfo' = [clientInfo EXCEPT ![c] =
                      [isAuthenticated |-> TRUE, userId |-> uid,
                       username |-> users[uid].username,
                       displayName |-> users[uid].display_name]]
               /\ Moved(h, "auth_online")
               /\ UNCHANGED <<outbox, unhandled>>
    /\ UNCHANGED <<readyState, clients, users, messages, sessions, nCmds, stats, wsThrows, peer, indexScan, shut, now, broken>>

\* handleAuthentication resumes from updateUserOnlineStatus(userId, true) and
\* sends the welcome message
AuthOnline(h, fail) ==
    /\ h \in H
    /\ h.pc = "auth_online"
    /\ fail \in FailChoices
    /\ Faulted(fail)
    /\ LET c == h.conn
       IN IF fail
          THEN /\ SendErrorAndEnd(c, "Authentication failed: database error")
               /\ Finished(h)
               /\ UNCHANGED users
          ELSE /\ users' = updateUserOnlineStatus(users, h.uid, TRUE)
               /\ IF SendThrows(c)
                  THEN unhandled' = TRUE /\ Finished(h) /\ UNCHANGED outbox
                  ELSE /\ outbox' = SendTo(outbox, c, WelcomeFrame(h.uid))
                       /\ Moved(h, "auth_history")
                       /\ UNCHANGED unhandled
    /\ UNCHANGED <<readyState, clients, clientInfo, messages, sessions, nCmds,
                   stats, wsThrows, peer, indexScan, shut, now, broken>>

AuthHistory(h, fail) ==
    /\ h \in H
    /\ h.pc = "auth_history"
    /\ fail \in FailChoices
    /\ Faulted(fail)
    /\ HistoryThenJoin(h, fail)
    /\ Finished(h)
    /\ UNCHANGED <<readyState, clients, clientInfo, users, messages, sessions, nCmds,
                   stats, wsThrows, peer, indexScan, shut, now, broken, unhandled>>

(* -------------------------- the enhanced client ----------------------- *)
\* the client has displayed every frame sent to it and nothing of its own is
\* on the way to the hub
InSync(c) == peer[c].seen = Len(outbox[c]) /\ peer[c].sending = ""

\* handleMessage / displayMessage of the client: the next frame arrives and
\* is displayed; auth_success sets isAuthenticated
PeerDisplays(c) ==
    /\ peer[c].seen < Len(outbox[c])
    /\ LET f == outbox[c][peer[c].seen + 1]
       IN peer' = [peer EXCEPT ![c].seen = @ + 1,
                               ![c].isAuthenticated = IF f.ok /\ f.type = "auth_success" THEN TRUE ELSE @]
    /\ UNCHANGED <<readyState, clients, clientInfo, outbox, users, messages, sessions,
                   handlers, nCmds, nFaults, stats, wsThrows, unhandled, indexScan, shut, now, broken>>

\* handleLogout of the client: when it is authenticated it sends the logout
\* frame and resets its local state at once
PeerLogout(c) ==
    /\ IsOpen(c)
    /\ peer[c].isAuthenticated
    /\ peer[c].sending = ""
    /\ peer' = [peer EXCEPT ![c].isAuthenticated = FALSE, ![c].sending = "logout"]
    /\ UNCHANGED <<readyState, clients, clientInfo, outbox, users, messages, sessions,
                   handlers, nCmds, nFaults, stats, wsThrows, unhandled, indexScan, shut, now, broken>>

\* the logout frame of the client arrives at the hub
PeerLogoutArrives(c) ==
    /\ peer[c].sending = "logout"
    /\ handleLogout(c)
    /\ peer' = [peer EXCEPT ![c].sending = ""]

(* ------------------------------ the hub ------------------------------- *)
\* The database file outlives the process: the hub may start on a store
\* that already holds the accounts of earlier runs
StoredUser(n, p) ==
    [username |-> n, password_hash |-> BcryptHash(p), display_name |-> n, is_online |-> FALSE]

InitWith(us) ==
    /\ readyState = [c \in Conns |-> "NONE"]
    /\ clients = {}
    /\ clientInfo = [c \in Conns |-> NewInfo]
    /\ outbox = [c \in Conns |-> <<>>]
    /\ users = us
    /\ messages = <<>>
    /\ sessions = {}
    /\ handlers = EmptyBag
    /\ nCmds = 0
    /\ nFaults = 0
    /\ stats = [totalConnections |-> 0, currentConnections |-> 0, totalMessages |-> 0]
    /\ wsThrows \in BOOLEAN
    /\ indexScan \in BOOLEAN
    /\ now = 0
    /\ broken = {}
    /\ unhandled = FALSE
    /\ shut = [pc |-> "running", pos |-> 0, uid |-> NoUser]
    /\ peer = [c \in Conns |-> NewPeer]

\* a fresh store
Init == InitWith(<<>>)

\* a store with the accounts alice and bob
InitAccounts == InitWith(<<StoredUser("alice", "secret1"), StoredUser("bob", "hunter2")>>)

(* --------------------------- specifications --------------------------- *)
\* the account a peer uses on connection c: alice on odd connections (so two
\* connections may be bound to one user), bob on even ones
LoginOf(c) == IF c % 2 = 1 THEN <<"alice", "secret1">> ELSE <<"bob", "hunter2">>

\* what the peer on connection c types
ContentOf(c) == IF c % 2 = 1 THEN "hello" ELSE "bye"

Quiet == handlers = EmptyBag
LoggingIn == \E h \in H : h.pc \in {"login_lookup", "login_online", "login_session", "login_history"}

\* Peers log in one after the other and chat while logins and other
\* broadcasts are in flight; saveMessage may fail.
NextChat ==
    \/ \E c \in Conns : Connect(c)
    \/ \E c \in Conns : Quiet /\ ~IsAuthed(c) /\ RecvLogin(c, LoginOf(c)[1], LoginOf(c)[2])
    \/ \E h \in H : LoginLookup(h, FALSE)
    \/ \E h \in H : LoginOnline(h, FALSE)
    \/ \E h \in H : LoginSession(h, FALSE)
    \/ \E h \in H : LoginHistory(h, FALSE)
    \/ \E c \in Conns : RecvBroadcast(c, ContentOf(c))
    \/ \E h \in H, fail \in BOOLEAN : BroadcastSaved(h, fail)

SpecChat == InitAccounts /\ [][NextChat]_vars

\* Peers log in one after the other, chat, and one transport closes at any
\* moment; the online-status update of the close handler may fail.
NextLeave ==
    \/ \E c \in Conns : Connect(c)
    \/ \E c \in Conns : Quiet /\ ~IsAuthed(c) /\ RecvLogin(c, LoginOf(c)[1], LoginOf(c)[2])
    \/ \E h \in H : LoginLookup(h, FALSE)
    \/ \E h \in H : LoginOnline(h, FALSE)
    \/ \E h \in H : LoginSession(h, FALSE)
    \/ \E h \in H : LoginHistory(h, FALSE)
    \/ \E c \in Conns : ~LoggingIn /\ RecvBroadcast(c, ContentOf(c))
    \/ \E h \in H : BroadcastSaved(h, FALSE)
    \/ \E c \in Conns : Close(c)
    \/ \E h \in H, fail \in BOOLEAN : CloseOnline(h, fail)

SpecLeave == InitAccounts /\ [][NextLeave]_vars

\* Peers log in, log out and keep sending on the same connection.
NextLogout ==
    \/ \E c \in Conns : Connect(c)
    \/ \E c \in Conns : Quiet /\ ~IsAuthed(c) /\ RecvLogin(c, LoginOf(c)[1], LoginOf(c)[2])
    \/ \E h \in H : LoginLookup(h, FALSE)
    \/ \E h \in H : LoginOnline(h, FALSE)
    \/ \E h \in H : LoginSession(h, FALSE)
    \/ \E h \in H : LoginHistory(h, FALSE)
    \/ \E c \in Conns : ~LoggingIn /\ RecvLogout(c)
    \/ \E h \in H, fail \in BOOLEAN : LogoutOnline(h, fail)
    \/ \E c \in Conns : ~LoggingIn /\ RecvBroadcast(c, ContentOf(c))
    \/ \E h \in H : BroadcastSaved(h, FALSE)

SpecLogout == InitAccounts /\ [][NextLogout]_vars

\* Peers read the history and the list of online users, logged in or not.
NextReads ==
    \/ \E c \in Conns : Connect(c)
    \/ \E c \in Conns : Quiet /\ ~IsAuthed(c) /\ RecvLogin(c, LoginOf(c)[1], LoginOf(c)[2])
    \/ \E h \in H : LoginLookup(h, FALSE)
    \/ \E h \in H : LoginOnline(h, FALSE)
    \/ \E h \in H : LoginSession(h, FALSE)
    \/ \E h \in H : LoginHistory(h, FALSE)
    \/ \E c \in Conns : ~LoggingIn /\ RecvGetHistory(c)
    \/ \E h \in H, fail \in BOOLEAN : GetHistoryDone(h, fail)
    \/ \E c \in Conns : ~LoggingIn /\ RecvGetOnlineUsers(c)
    \/ \E h \in H, fail \in BOOLEAN : GetOnlineUsersDone(h, fail)

SpecReads == InitAccounts /\ [][NextReads]_vars

\* Peers register the same username on a fresh store, from any connection
\* and with their handlers overlapping.
NextRegister ==
    \/ \E c \in Conns : Connect(c)
    \/ \E c \in Conns : RecvRegister(c, "alice", LoginOf(c)[2])
    \/ \E h \in H : RegLookup(h, FALSE)
    \/ \E h \in H : RegCreate(h, FALSE)
    \/ \E h \in H : RegSession(h, FALSE)
    \/ \E h \in H : RegOnline(h, FALSE)
    \/ \E h \in H : RegHistory(h, FALSE)

SpecRegister == Init /\ [][NextRegister]_vars

\* Peers log in one after the other and send frames the hub has no use for:
\* empty frames, broadcasts whose content is blank, and unknown commands.
NextMisuse ==
    \/ \E c \in Conns : Connect(c)
    \/ \E c \in Conns : Quiet /\ ~IsAuthed(c) /\ RecvLogin(c, LoginOf(c)[1], LoginOf(c)[2])
    \/ \E h \in H : LoginLookup(h, FALSE)
    \/ \E h \in H : LoginOnline(h, FALSE)
    \/ \E h \in H : LoginSession(h, FALSE)
    \/ \E h \in H : LoginHistory(h, FALSE)
    \/ \E c \in Conns : RecvBlank(c)
    \/ \E c \in Conns, content \in BlankContents : ~LoggingIn /\ RecvBroadcast(c, content)
    \/ \E h \in H : BroadcastSaved(h, FALSE)
    \/ \E c \in Conns : ~LoggingIn /\ RecvUnknown(c)

SpecMisuse == InitAccounts /\ [][NextMisuse]_vars

\* the account a peer registers on connection c: a username of its own
RegNames == <<"alice", "bob", "carol", "dave">>
RegisterOf(c) == <<RegNames[((c - 1) % Len(RegNames)) + 1], LoginOf(c)[2]>>

\* the registrations registerUser refuses before it queries anything
WeakInputs(c) ==
    {<<"al", "abc">>, <<RegisterOf(c)[1], "abc">>, <<"", "secret1">>}

\* no handler of connection c is in flight
Idle(c) == ~\E h \in H : h.conn = c

\* Peers sign up on a fresh store, each with a username of its own, their
\* handlers overlapping; before it succeeds a peer may try a weak username
\* or a weak password.
NextSignUp ==
    \/ \E c \in Conns : Connect(c)
    \/ \E c \in Conns :
          /\ ~clientInfo[c].isAuthenticated /\ Idle(c)
          /\ RecvRegister(c, RegisterOf(c)[1], RegisterOf(c)[2])
    \/ \E c \in Conns : \E w \in WeakInputs(c) :
          /\ ~clientInfo[c].isAuthenticated /\ Idle(c)
          /\ RecvRegister(c, w[1], w[2])
    \/ \E h \in H : RegLookup(h, FALSE)
    \/ \E h \in H : RegCreate(h, FALSE)
    \/ \E h \in H : RegSession(h, FALSE)
    \/ \E h \in H : RegOnline(h, FALSE)
    \/ \E h \in H : RegHistory(h, FALSE)

SpecSignUp == Init /\ [][NextSignUp]_vars

\* the connection whose account the peer on connection c logs in to
NextOf(c) == (c % NConns) + 1

\* Peers sign up on a fresh store and log in to the account registered on
\* the next connection, before or after that registration.
NextRejoin ==
    \/ \E c \in Conns : Connect(c)
    \/ \E c \in Conns :
          /\ ~clientInfo[c].isAuthenticated /\ Idle(c)
          /\ RecvRegister(c, RegisterOf(c)[1], RegisterOf(c)[2])
    \/ \E h \in H : RegLookup(h, FALSE)
    \/ \E h \in H : RegCreate(h, FALSE)
    \/ \E h \in H : RegSession(h, FALSE)
    \/ \E h \in H : RegOnline(h, FALSE)
    \/ \E h \in H : RegHistory(h, FALSE)
    \/ \E c \in Conns :
          /\ Idle(c)
          /\ RecvLogin(c, RegisterOf(NextOf(c))[1], RegisterOf(NextOf(c))[2])
    \/ \E h \in H : LoginLookup(h, FALSE)
    \/ \E h \in H : LoginOnline(h, FALSE)
    \/ \E h \in H : LoginSession(h, FALSE)
    \/ \E h \in H : LoginHistory(h, FALSE)

SpecRejoin == Init /\ [][NextRejoin]_vars

\* a store with the account alice alone
InitAlice == InitWith(<<StoredUser("alice", "secret1")>>)

\* what the peer on connection c tries to log in with: the username alice,
\* which exists, with a wrong password; the username bob, which does not
\* exist, with the same password; or the credentials of alice
TryOf(c) ==
    CASE c % 3 = 1 -> <<"alice", "hunter2">>
      [] c % 3 = 2 -> <<"bob", "hunter2">>
      [] OTHER -> <<"alice", "secret1">>

\* Peers try to log in, overlapping, on a store that holds alice alone.
NextLoginFail ==
    \/ \E c \in Conns : Connect(c)
    \/ \E c \in Conns : Idle(c) /\ ~IsAuthed(c) /\ RecvLogin(c, TryOf(c)[1], TryOf(c)[2])
    \/ \E h \in H : LoginLookup(h, FALSE)
    \/ \E h \in H : LoginOnline(h, FALSE)
    \/ \E h \in H : LoginSession(h, FALSE)
    \/ \E h \in H : LoginHistory(h, FALSE)

SpecLoginFail == InitAlice /\ [][NextLoginFail]_vars

\* Peers log in one after the other and chat; the socket of one of them
\* breaks at any moment.
NextFragile ==
    \/ \E c \in Conns : Connect(c)
    \/ \E c \in Conns : Quiet /\ ~IsAuthed(c) /\ RecvLogin(c, LoginOf(c)[1], LoginOf(c)[2])
    \/ \E h \in H : LoginLookup(h, FALSE)
    \/ \E h \in H : LoginOnline(h, FALSE)
    \/ \E h \in H : LoginSession(h, FALSE)
    \/ \E h \in H : LoginHistory(h, FALSE)
    \/ \E c \in Conns : ~LoggingIn /\ Break(c)
    \/ \E c \in Conns : ~LoggingIn /\ RecvBroadcast(c, ContentOf(c))
    \/ \E h \in H : BroadcastSaved(h, FALSE)

SpecFragile == InitAccounts /\ [][NextFragile]_vars

\* Peers log in one after the other, a transport closes, and handleClose is
\* called a second time for it.
NextClose ==
    \/ \E c \in Conns : Connect(c)
    \/ \E c \in Conns : Quiet /\ ~IsAuthed(c) /\ RecvLogin(c, LoginOf(c)[1], LoginOf(c)[2])
    \/ \E h \in H : LoginLookup(h, FALSE)
    \/ \E h \in H : LoginOnline(h, FALSE)
    \/ \E h \in H : LoginSession(h, FALSE)
    \/ \E h \in H : LoginHistory(h, FALSE)
    \/ \E c \in Conns : Close(c)
    \/ \E c \in Conns : CloseAgain(c)
    \/ \E h \in H : CloseOnline(h, FALSE)

SpecClose == InitAccounts /\ [][NextClose]_vars

\* Peers log in one after the other, chat and read the history, within one
\* second or across seconds.
NextHistory ==
    \/ \E c \in Conns : Connect(c)
    \/ \E c \in Conns : Quiet /\ ~IsAuthed(c) /\ RecvLogin(c, LoginOf(c)[1], LoginOf(c)[2])
    \/ \E h \in H : LoginLookup(h, FALSE)
    \/ \E h \in H : LoginOnline(h, FALSE)
    \/ \E h \in H : LoginSession(h, FALSE)
    \/ \E h \in H : LoginHistory(h, FALSE)
    \/ \E c \in Conns : ~LoggingIn /\ RecvBroadcast(c, ContentOf(c))
    \/ \E h \in H : BroadcastSaved(h, FALSE)
    \/ Tick
    \/ \E c \in Conns : Quiet /\ IsAuthed(c) /\ RecvGetHistory(c)
    \/ \E h \in H : GetHistoryDone(h, FALSE)

SpecHistory == InitAccounts /\ [][NextHistory]_vars

\* the store is open until authService.close() has resolved
DbOpen == shut.pc # "released"

\* Peers connect and log in one after the other, the hub is shut down, and
\* the sockets it closes report their 'close'. A statement issued on the
\* closed store fails.
NextShutdown ==
    \/ \E c \in Conns : Connect(c)
    \/ \E c \in Conns : Quiet /\ ~IsAuthed(c) /\ RecvLogin(c, LoginOf(c)[1], LoginOf(c)[2])
    \/ \E h \in H : DbOpen /\ LoginLookup(h, FALSE)
    \/ \E h \in H : DbOpen /\ LoginOnline(h, FALSE)
    \/ \E h \in H : DbOpen /\ LoginSession(h, FALSE)
    \/ \E h \in H : DbOpen /\ LoginHistory(h, FALSE)
    \/ Shutdown
    \/ \E fail \in BOOLEAN : ShutdownOffline(fail)
    \/ ShutdownRelease
    \/ \E c \in Conns : CloseEvent(c)
    \/ \E h \in H : CloseOnline(h, ~DbOpen)

SpecShutdown == InitAccounts /\ [][NextShutdown]_vars

\* Peers log in one after the other and chat while things go wrong: the
\* store rejects a statement, a frame has an unknown type, a socket closes
\* under a suspended handler. Nobody asks the hub to stop.
NextErrors ==
    \/ \E c \in Conns : Connect(c)
    \/ \E c \in Conns : Quiet /\ ~IsAuthed(c) /\ RecvLogin(c, LoginOf(c)[1], LoginOf(c)[2])
    \/ \E h \in H : DbOpen /\ LoginLookup(h, FALSE)
    \/ \E h \in H : DbOpen /\ LoginOnline(h, FALSE)
    \/ \E h \in H : DbOpen /\ LoginSession(h, FALSE)
    \/ \E h \in H : DbOpen /\ LoginHistory(h, FALSE)
    \/ \E c \in Conns : Quiet /\ RecvBroadcast(c, ContentOf(c))
    \/ \E h \in H, fail \in BOOLEAN : DbOpen /\ BroadcastSaved(h, fail)
    \/ \E c \in Conns : Quiet /\ RecvUnknown(c)
    \/ \E c \in Conns : ~LoggingIn /\ Close(c)
    \/ \E h \in H : DbOpen /\ CloseOnline(h, FALSE)
    \/ ShutdownOnRejection
    \/ ShutdownOffline(FALSE)
    \/ ShutdownRelease

SpecErrors == InitAccounts /\ [][NextErrors]_vars

\* the tokens the peer on connection c presents: that of the user with the
\* number of the next connection, signed by this run or by an earlier one,
\* and on the first connection also a forged one and none
TokensOf(c) ==
    {t \in Tokens : t.userId = NextOf(c)} \cup (IF c = 1 THEN {ForgedToken, NoToken} ELSE {})

\* Peers obtain tokens by logging in or, on the last connection, by signing
\* up as carol, and present tokens on unauthenticated connections, one
\* command at a time; the peer on the second connection also tries alice's
\* account with a wrong password; sockets close under the suspended handlers.
NextToken ==
    \/ \E c \in Conns : Connect(c)
    \/ Quiet /\ ~IsAuthed(NConns) /\ RecvRegister(NConns, "carol", "secret1")
    \/ \E h \in H : RegLookup(h, FALSE)
    \/ \E h \in H : RegCreate(h, FALSE)
    \/ \E h \in H : RegSession(h, FALSE)
    \/ \E h \in H : RegOnline(h, FALSE)
    \/ \E h \in H : RegHistory(h, FALSE)
    \/ \E c \in Conns : Quiet /\ ~IsAuthed(c) /\ RecvLogin(c, LoginOf(c)[1], LoginOf(c)[2])
    \/ \E h \in H : LoginLookup(h, FALSE)
    \/ \E h \in H : LoginOnline(h, FALSE)
    \/ \E h \in H : LoginSession(h, FALSE)
    \/ \E h \in H : LoginHistory(h, FALSE)
    \/ Quiet /\ ~IsAuthed(2) /\ RecvLogin(2, "alice", "hunter2")
    \/ \E c \in Conns : \E token \in TokensOf(c) : Quiet /\ ~IsAuthed(c) /\ RecvAuth(c, token)
    \/ \E h \in H : AuthSession(h, FALSE)
    \/ \E h \in H, fail \in BOOLEAN : AuthOnline(h, fail)
    \/ \E h \in H : AuthHistory(h, FALSE)
    \/ \E c \in Conns : Close(c)
    \/ \E h \in H : CloseOnline(h, FALSE)

SpecToken == InitAccounts /\ [][NextToken]_vars

\* Peers log in one after the other and chat; a peer that is logged in may
\* log in to another account on the same connection, also while the append
\* of its broadcast is pending (handleLogin does not ask whether the
\* connection is authenticated already).
NextSwitch ==
    \/ \E c \in Conns : Connect(c)
    \/ \E c \in Conns : Quiet /\ ~IsAuthed(c) /\ RecvLogin(c, LoginOf(c)[1], LoginOf(c)[2])
    \/ \E c \in Conns :
          /\ IsAuthed(c) /\ ~LoggingIn
          /\ RecvLogin(c, LoginOf(NextOf(c))[1], LoginOf(NextOf(c))[2])
    \/ \E h \in H : LoginLookup(h, FALSE)
    \/ \E h \in H : LoginOnline(h, FALSE)
    \/ \E h \in H : LoginSession(h, FALSE)
    \/ \E h \in H : LoginHistory(h, FALSE)
    \/ \E c \in Conns : Quiet /\ RecvBroadcast(c, ContentOf(c))
    \/ \E h \in H : BroadcastSaved(h, FALSE)

SpecSwitch == InitAccounts /\ [][NextSwitch]_vars

\* the append of a broadcast of connection c is pending
Appending(c) == \E h \in H : h.conn = c /\ h.pc = "bc_save"

\* Peers log in one after the other and chat, one broadcast at a time;
\* saveMessage may fail, and the transport of the sender may close or its
\* socket may break while the append is pending.
NextAnswer ==
    \/ \E c \in Conns : Connect(c)
    \/ \E c \in Conns : Quiet /\ ~IsAuthed(c) /\ RecvLogin(c, LoginOf(c)[1], LoginOf(c)[2])
    \/ \E h \in H : LoginLookup(h, FALSE)
    \/ \E h \in H : LoginOnline(h, FALSE)
    \/ \E h \in H : LoginSession(h, FALSE)
    \/ \E h \in H : LoginHistory(h, FALSE)
    \/ \E c \in Conns : Quiet /\ RecvBroadcast(c, ContentOf(c))
    \/ \E h \in H, fail \in BOOLEAN : BroadcastSaved(h, fail)
    \/ \E c \in Conns : Appending(c) /\ Break(c)
    \/ \E c \in Conns : Appending(c) /\ Close(c)
    \/ \E h \in H : CloseOnline(h, FALSE)

\* every call of saveMessage returns or fails in the end
SpecAnswer ==
    /\ InitAccounts /\ [][NextAnswer]_vars
    /\ WF_vars(\E h \in H, fail \in BOOLEAN : BroadcastSaved(h, fail))

\* a payload of the embedding program, and how often it is handed to
\* broadcastToAll
Announcement == Frame("system", "Server announcement", 0, NoUser, <<>>)
MaxAnnounce == 2

\* the embedding program calls broadcastToAll(message)
CallBroadcastToAll(f) ==
    /\ \A c \in Conns : Cardinality({i \in 1..Len(outbox[c]) : outbox[c][i].content = f.content}) < MaxAnnounce
    /\ outbox' = broadcastToAll(outbox, f)
    /\ UNCHANGED <<readyState, clients, clientInfo, users, messages, sessions, handlers,
                   nCmds, nFaults, stats, wsThrows, peer, unhandled, indexScan, shut, now, broken>>

\* Peers connect, log in one after the other and leave, and the embedding
\* program announces something to everybody at any moment.
NextAnnounce ==
    \/ \E c \in Conns : Connect(c)
    \/ \E c \in Conns : Quiet /\ ~IsAuthed(c) /\ RecvLogin(c, LoginOf(c)[1], LoginOf(c)[2])
    \/ \E h \in H : LoginLookup(h, FALSE)
    \/ \E h \in H : LoginOnline(h, FALSE)
    \/ \E h \in H : LoginSession(h, FALSE)
    \/ \E h \in H : LoginHistory(h, FALSE)
    \/ \E c \in Conns : Close(c)
    \/ \E h \in H : CloseOnline(h, FALSE)
    \/ CallBroadcastToAll(Announcement)

SpecAnnounce == InitAccounts /\ [][NextAnnounce]_vars

\* Enhanced clients connect, log in one after the other, display what the
\* hub sends them, and log out. A client that believes it is not
\* authenticated may log in again.
NextPeer ==
    \/ \E c \in Conns : Connect(c)
    \/ \E c \in Conns :
          /\ Quiet /\ InSync(c) /\ ~peer[c].isAuthenticated
          /\ RecvLogin(c, LoginOf(c)[1], LoginOf(c)[2])
    \/ \E h \in H : LoginLookup(h, FALSE)
    \/ \E h \in H : LoginOnline(h, FALSE)
    \/ \E h \in H : LoginSession(h, FALSE)
    \/ \E h \in H : LoginHistory(h, FALSE)
    \/ \E c \in Conns : PeerDisplays(c)
    \/ \E c \in Conns : PeerLogout(c)
    \/ \E c \in Conns : PeerLogoutArrives(c)
    \/ \E h \in H : LogoutOnline(h, FALSE)

SpecPeer == InitAccounts /\ [][NextPeer]_vars

(* ------------------------------ properties ---------------------------- *)
\* the frames appended to the outbox of c by the step
NewFrames(c) == SubSeq(outbox'[c], Len(outbox[c]) + 1, Len(outbox'[c]))

\* the places of the frames of the given type and message id sent to c
Places(c, type, k) ==
    {i \in 1..Len(outbox[c]) : outbox[c][i].type = type /\ outbox[c][i].id = k}
CountFrames(c, type, k) == Cardinality(Places(c, type, k))

\* the places of the error frames with the given text sent to c
ErrorPlaces(c, text) ==
    {i \in 1..Len(outbox[c]) : outbox[c][i] = ErrorFrame(text)}

\* a frame of a fan-out: a broadcast message, a join notice or a leave notice
IsFanOut(f) ==
    \/ f.type = "broadcast"
    \/ f.type = "system" /\ f.content \in {"has joined the chat", "has left the chat"}

\* the step completes handler h
Completes(h) == h \in H /\ handlers' = handlers (-) SetToBag({h})

\* C1: when the handler of a broadcast of authenticated connection A reaches
\* its fan-out, every other connection that is authenticated and open is sent
\* exactly one broadcast frame with the content, the new message id and A's
\* userId, and A is sent exactly the confirmation; no connection ever holds
\* the broadcast frame or the confirmation of a message twice, and none holds
\* both the confirmation and the broadcast frame of one message.
C1_Fanout ==
    \A h \in H :
        (h.pc = "bc_save" /\ Completes(h) /\ Len(messages') = Len(messages) + 1) =>
            LET A == h.conn
                k == Len(messages')
            IN /\ \A c \in Conns \ {A} :
                     (IsAuthed(c) /\ IsOpen(c)) =>
                        NewFrames(c) = <<BroadcastFrame(h.content, k, clientInfo[A].userId)>>
               /\ IsOpen(A) => NewFrames(A) = <<Confirmation(k)>>

C1_Once ==
    \A c \in Conns, k \in 1..Len(messages) :
        CountFrames(c, "broadcast", k) + CountFrames(c, "confirmation", k) <= 1

C1_BroadcastReachesOthersOnce == []C1_Once /\ [][C1_Fanout]_vars

\* C1 witness: connection 1 holds the confirmation of a message that
\* connections 2 and 3 each hold once as a broadcast frame
C1_Witness ==
    \E k \in 1..Len(messages) :
        /\ CountFrames(1, "confirmation", k) = 1
        /\ CountFrames(2, "broadcast", k) = 1
        /\ CountFrames(3, "broadcast", k) = 1

\* C2: a broadcast received from a connection that is not authenticated is
\* answered with the authentication-required error to that connection alone:
\* no handler is started, nothing is appended to the message log and no other
\* connection is sent anything; every stored message has an authenticated
\* sender.
C2_Rejected ==
    \A c \in Conns :
        (~IsAuthed(c) /\ RecvBroadcast(c, ContentOf(c))) =>
            /\ NewFrames(c) = <<ErrorFrame("Authentication required to send messages")>>
            /\ \A d \in Conns \ {c} : outbox'[d] = outbox[d]
            /\ messages' = messages
            /\ handlers' = handlers
            /\ clientInfo' = clientInfo

C2_SendersAuthenticated ==
    /\ \A k \in 1..Len(messages) : messages[k].sender_id # NoUser
    /\ \A h \in H : h.pc = "bc_save" => h.uid # NoUser

C2_UnauthenticatedBroadcastRejected == []C2_SendersAuthenticated /\ [][C2_Rejected]_vars

\* C2 witness: an unauthenticated connection holds the rejection while
\* another connection is authenticated
C2_Witness ==
    \E c, d \in Conns :
        /\ c \in clients /\ ~clientInfo[c].isAuthenticated
        /\ ErrorPlaces(c, "Authentication required to send messages") # {}
        /\ IsAuthed(d) /\ IsOpen(d)

\* C3: no connection that is not authenticated holds a frame of a fan-out
\* (the flag is never cleared, so a frame sent before the authentication
\* would show in the state in which it was sent).
C3_FanOutOnlyToAuthenticated ==
    \A c \in Conns :
        ~clientInfo[c].isAuthenticated =>
            \A i \in 1..Len(outbox[c]) : ~IsFanOut(outbox[c][i])

\* C3 witness: connection 2, accepted before connection 3, is still
\* unauthenticated and holds only its auth_required frame, while connection 3
\* has been sent a frame of a fan-out
C3_Witness ==
    /\ 2 \in clients /\ IsOpen(2) /\ ~clientInfo[2].isAuthenticated
    /\ outbox[2] = <<AuthRequired>>
    /\ \E i \in 1..Len(outbox[3]) : IsFanOut(outbox[3][i])

\* C4 (as claimed): the step that completes the handler of a logout leaves
\* the connection unauthenticated.
C4_LogoutUnauthenticates ==
    [][\A h \in H : (h.pc = "logout_online" /\ Completes(h)) =>
            ~clientInfo'[h.conn].isAuthenticated]_vars

\* C5 (as claimed): get_history and get_online_users from a connection that
\* is not authenticated are answered with one error frame and query nothing.
C5_ReadsNeedAuthentication ==
    [][\A c \in Conns :
        (~IsAuthed(c) /\ (RecvGetHistory(c) \/ RecvGetOnlineUsers(c))) =>
            /\ Len(NewFrames(c)) = 1 /\ NewFrames(c)[1].type = "error"
            /\ handlers' = handlers]_vars

\* C6 (as claimed): at most one command handler of a connection is in flight.
C6_OneHandlerPerConnection ==
    \A c \in Conns :
        LET S == {h \in H : h.conn = c /\ h.pc # "close_online"}
        IN Cardinality(S) <= 1 /\ \A h \in S : CopiesIn(h, handlers) = 1

\* C7: every connection that holds the broadcast frames of two messages
\* holds them in the order in which their handlers reached the fan-out (the
\* order of the message ids), so all recipients agree on the order.
C7_BroadcastOrder ==
    \A c \in Conns, j, k \in 1..Len(messages) :
        j < k =>
            \A p \in Places(c, "broadcast", j), q \in Places(c, "broadcast", k) : p < q

\* C7 witness: a connection holds the broadcasts of two messages of
\* different senders
C7_Witness ==
    \E c \in Conns, j, k \in 1..Len(messages) :
        /\ messages[j].sender_id # messages[k].sender_id
        /\ Places(c, "broadcast", j) # {}
        /\ Places(c, "broadcast", k) # {}

\* C8: no frame of a fan-out is ever passed to a connection whose transport
\* has closed; when the close handler of an authenticated connection
\* completes, the connection leaves the registry and the count of
\* authenticated connections drops by exactly one; a closed connection whose
\* close handler is not in flight is not in the registry.
C8_Step ==
    /\ \A c \in Conns :
          readyState[c] = "CLOSED" =>
              \A i \in 1..Len(NewFrames(c)) : ~IsFanOut(NewFrames(c)[i])
    /\ \A h \in H :
          (h.pc = "close_online" /\ Completes(h)) =>
              /\ h.conn \notin clients'
              /\ getAuthenticatedClientCount' = getAuthenticatedClientCount - 1

C8_Removed ==
    \A c \in Conns :
        (readyState[c] = "CLOSED" /\ ~\E h \in H : h.pc = "close_online" /\ h.conn = c)
            => c \notin clients

C8_ClosedConnectionLeavesFanOut == []C8_Removed /\ [][C8_Step]_vars

\* C8 witness: connection 1 was authenticated, closed and was removed; then a
\* broadcast of connection 2 reached connection 3 and not connection 1
C8_Witness ==
    /\ readyState[1] = "CLOSED" /\ 1 \notin clients /\ clientInfo[1].isAuthenticated
    /\ \E k \in 1..Len(messages), p \in 1..Len(outbox[2]) :
          /\ outbox[2][p] = LeaveFrame(clientInfo[1].userId)
          /\ \E q \in Places(2, "confirmation", k) : p < q
          /\ Places(3, "broadcast", k) # {}
          /\ Places(1, "broadcast", k) = {}

\* the auth_success frames of registrations, and the duplicate-username
\* errors, over all connections
RegSuccesses ==
    UNION {{<<c, i>> : i \in {j \in 1..Len(outbox[c]) :
                outbox[c][j].type = "auth_success"
                /\ outbox[c][j].content = "Registration successful"}} : c \in Conns}
DuplicateErrors ==
    UNION {{<<c, i>> : i \in ErrorPlaces(c, "Registration failed: Username already exists")}
           : c \in Conns}

\* C9: however the registrations of one username interleave, at most one
\* user record exists for it, at most one registration is answered with
\* auth_success and at most one connection is authenticated; once no handler
\* is in flight, exactly one registration has succeeded, every other one was
\* answered with the duplicate-username error, and exactly one connection is
\* authenticated.
C9_OneRegistrationWins ==
    /\ Cardinality(UserIdsByName("alice")) <= 1
    /\ Cardinality(RegSuccesses) <= 1
    /\ getAuthenticatedClientCount <= 1
    /\ (Quiet /\ nCmds >= 1) =>
          /\ Cardinality(UserIdsByName("alice")) = 1
          /\ Cardinality(RegSuccesses) = 1
          /\ Cardinality(DuplicateErrors) = nCmds - 1
          /\ getAuthenticatedClientCount = 1

\* C9 witness: two connections registered the name; one was answered with
\* auth_success and the other with the duplicate-username error
C9_Witness ==
    /\ Quiet
    /\ \E c, d \in Conns :
          /\ c # d
          /\ \E i \in 1..Len(outbox[c]) : <<c, i>> \in RegSuccesses
          /\ ErrorPlaces(d, "Registration failed: Username already exists") # {}
          /\ ~clientInfo[d].isAuthenticated

\* C10: when saveMessage fails, the message log and every other outbox are
\* unchanged, the sender is sent exactly the error frame (no confirmation),
\* and the sender's registry entry and authentication are untouched.
C10_Step ==
    \A h \in H :
        (h.pc = "bc_save" /\ Completes(h) /\ nFaults' = nFaults + 1) =>
            LET A == h.conn
            IN /\ messages' = messages
               /\ \A c \in Conns \ {A} : outbox'[c] = outbox[c]
               /\ IsOpen(A) => NewFrames(A) = <<ErrorFrame("Failed to save message")>>
               /\ clients' = clients /\ A \in clients'
               /\ clientInfo' = clientInfo /\ clientInfo'[A].isAuthenticated

C10_FailedAppendAbortsBroadcast == [][C10_Step]_vars

\* C10 witness: the last frame of an authenticated connection is the error of
\* a failed save, no handler is in flight, and another connection is
\* authenticated and open
C10_Witness ==
    /\ Quiet
    /\ \E A, B \in Conns :
          /\ A # B /\ IsAuthed(A) /\ IsAuthed(B) /\ IsOpen(B)
          /\ Len(outbox[A]) > 0
          /\ outbox[A][Len(outbox[A])] = ErrorFrame("Failed to save message")


\* C11 (as claimed): a broadcast of an authenticated connection whose content
\* is empty after trimming is dropped in silence: no frame is sent to anyone,
\* no handler is started and nothing is stored.
C11_BlankBroadcastDropped ==
    [][\A c \in Conns, content \in BlankContents :
        (IsAuthed(c) /\ RecvBroadcast(c, content)) =>
            /\ outbox' = outbox
            /\ handlers' = handlers
            /\ messages' = messages]_vars

\* C17: an unknown command is answered with the unknown-type error to the
\* connection it came from; no other connection is sent anything, and the
\* registry, the authentication of every connection, the store and the
\* handlers in flight are unchanged.
C17_Step ==
    \A c \in Conns :
        RecvUnknown(c) =>
            /\ NewFrames(c) = <<ErrorFrame("Unknown message type")>>
            /\ \A d \in Conns \ {c} : outbox'[d] = outbox[d]
            /\ clients' = clients /\ clientInfo' = clientInfo
            /\ users' = users /\ messages' = messages /\ sessions' = sessions
            /\ handlers' = handlers

C17_UnknownCommandRejected == [][C17_Step]_vars

\* C17 witness: an unauthenticated connection and an authenticated one each
\* hold the unknown-type error, and a third, authenticated and open, holds no
\* error at all
C17_Witness ==
    \E c, d, e \in Conns :
        /\ ~clientInfo[c].isAuthenticated /\ IsAuthed(d) /\ IsAuthed(e) /\ IsOpen(e)
        /\ d # e
        /\ ErrorPlaces(c, "Unknown message type") # {}
        /\ ErrorPlaces(d, "Unknown message type") # {}
        /\ \A i \in 1..Len(outbox[e]) : outbox[e][i].type # "error"

\* the step resumes handler h (and ends it or moves it on)
Resumes(h) == h \in H /\ CopiesIn(h, handlers') = CopiesIn(h, handlers) - 1

\* the step moves handler h on to the given stage
MovesOn(h, pc) == Resumes(h) /\ [h EXCEPT !.pc = pc] \in BagToSet(handlers')

\* the places of the auth_success frames with the given text sent to c
SuccessPlaces(c, text) ==
    {i \in 1..Len(outbox[c]) :
        outbox[c][i].type = "auth_success" /\ outbox[c][i].content = text}

\* C12: the step in which a register or a login succeeds sends auth_success
\* with the minted token to the acting connection alone and makes it
\* authenticated and bound to the user; the step that ends the handler sends
\* the history to the acting connection alone and the join notice to every
\* other authenticated open connection and to no one else; the history
\* frames of a connection never outnumber the auth_success frames before them.
C12_Success ==
    \A h \in H :
        ((h.pc = "login_session" /\ MovesOn(h, "login_history"))
            \/ (h.pc = "reg_session" /\ MovesOn(h, "reg_online"))) =>
            LET c == h.conn
                text == IF h.pc = "login_session" THEN "Login successful"
                        ELSE "Registration successful"
            IN /\ NewFrames(c) = <<AuthSuccess(text, h.uid, generateToken(h.uid, h.name))>>
               /\ NewFrames(c)[1].token # NoToken
               /\ clientInfo'[c].isAuthenticated /\ clientInfo'[c].userId = h.uid
               /\ \A d \in Conns \ {c} : outbox'[d] = outbox[d]

C12_HistoryThenJoin ==
    \A h \in H :
        (h.pc \in {"login_history", "reg_history"} /\ Completes(h)) =>
            LET c == h.conn
            IN /\ NewFrames(c) = <<HistoryFrame("Recent messages",
                                       Reverse(getRecentMessages(RecentLimit)))>>
               /\ \A d \in Conns \ {c} :
                     NewFrames(d) = IF IsAuthed(d) /\ IsOpen(d) THEN <<JoinFrame(h.uid)>>
                                    ELSE <<>>

C12_HistoryAfterSuccess ==
    \A c \in Conns : \A i \in 1..Len(outbox[c]) :
        outbox[c][i].type = "message_history" =>
            Cardinality({j \in 1..i : outbox[c][j].type = "message_history"})
                <= Cardinality({j \in 1..i : outbox[c][j].type = "auth_success"})

C12_SuccessThenHistoryThenJoin ==
    /\ []C12_HistoryAfterSuccess
    /\ [][C12_Success /\ C12_HistoryThenJoin]_vars

\* C12 witness: a connection holds the auth_success of a login and then the
\* history, another the auth_success of a registration and then the history;
\* each holds the join notice of the other's user and not that of its own
C12_Witness ==
    \E c, d \in Conns :
        /\ c # d /\ Quiet
        /\ \E i \in SuccessPlaces(c, "Login successful") :
              /\ \E j \in (i + 1)..Len(outbox[c]) : outbox[c][j].type = "message_history"
              /\ \E j \in 1..Len(outbox[d]) : outbox[d][j] = JoinFrame(outbox[c][i].uid)
              /\ \A j \in 1..Len(outbox[c]) : outbox[c][j] # JoinFrame(outbox[c][i].uid)
        /\ \E i \in SuccessPlaces(d, "Registration successful") :
              /\ \E j \in (i + 1)..Len(outbox[d]) : outbox[d][j].type = "message_history"
              /\ \E j \in 1..Len(outbox[c]) : outbox[c][j] = JoinFrame(outbox[d][i].uid)
              /\ \A j \in 1..Len(outbox[d]) : outbox[d][j] # JoinFrame(outbox[d][i].uid)

\* the user ids that registrations of the username have been answered with
RegisteredIds(n) ==
    UNION {{outbox[c][i].uid : i \in {j \in SuccessPlaces(c, "Registration successful") :
                                        outbox[c][j].token.username = n}} : c \in Conns}

\* C13: a login with the credentials of a registration that has succeeded is
\* not refused, and it authenticates the connection and binds it to the
\* userId the registration was answered with; the auth_success frames of the
\* logins and of the registration of one username carry the same userId.
C13_Lookup ==
    \A h \in H :
        (h.pc = "login_lookup" /\ Resumes(h) /\ RegisteredIds(h.name) # {}) =>
            \E u \in RegisteredIds(h.name) :
                /\ BcryptCompare(h.pw, users[u].password_hash)
                /\ [h EXCEPT !.pc = "login_online", !.uid = u] \in BagToSet(handlers')

C13_Bind ==
    \A h \in H :
        (h.pc = "login_session" /\ Resumes(h)) =>
            /\ clientInfo'[h.conn].isAuthenticated
            /\ clientInfo'[h.conn].userId = h.uid
            /\ clientInfo'[h.conn].username = h.name
            /\ users[h.uid].username = h.name

C13_SameUserId ==
    \A c \in Conns : \A i \in SuccessPlaces(c, "Login successful") :
        /\ users[outbox[c][i].uid].username = outbox[c][i].token.username
        /\ \A u \in RegisteredIds(outbox[c][i].token.username) : outbox[c][i].uid = u

C13_LoginBindsRegisteredUser ==
    /\ []C13_SameUserId
    /\ [][C13_Lookup /\ C13_Bind]_vars

\* C13 witness: a connection was answered a registration with a userId that
\* is not the first row, and another connection, logged in with the same
\* credentials, is authenticated and bound to that userId
C13_Witness ==
    \E c, d \in Conns :
        /\ c # d
        /\ \E i \in SuccessPlaces(c, "Registration successful") :
              /\ outbox[c][i].uid # 1
              /\ \E j \in SuccessPlaces(d, "Login successful") :
                    /\ outbox[d][j].uid = outbox[c][i].uid
                    /\ outbox[d][j].token = outbox[c][i].token
              /\ clientInfo[d].isAuthenticated
              /\ clientInfo[d].userId = outbox[c][i].uid

\* the errors of registerUser's checks of its input
RequiredError == "Registration failed: Username and password are required"
WeakUsernameError == "Registration failed: Username must be at least 3 characters long"
WeakPasswordError == "Registration failed: Password must be at least 6 characters long"

C16_Step ==
    \A c \in Conns : \A w \in WeakInputs(c) :
        LET name == w[1]
            pw == w[2]
        IN ((name = "" \/ pw = "" \/ StrLen(name) < 3 \/ StrLen(pw) < 6)
            /\ RecvRegister(c, name, pw)) =>
            /\ NewFrames(c) = <<ErrorFrame(
                    IF name = "" \/ pw = "" THEN RequiredError
                    ELSE IF StrLen(name) < 3 THEN WeakUsernameError
                    ELSE WeakPasswordError)>>
            /\ \A d \in Conns \ {c} : outbox'[d] = outbox[d]
            /\ users' = users /\ sessions' = sessions
            /\ handlers' = handlers
            /\ clientInfo' = clientInfo /\ clients' = clients

C16_StoredAreStrong ==
    /\ \A i \in 1..Len(users) :
          /\ StrLen(users[i].username) >= 3
          /\ \A pw \in Passwords : StrLen(pw) < 6 => users[i].password_hash # BcryptHash(pw)
    /\ \A t \in sessions : StrLen(t.username) >= 3

C16_WeakRegistrationRejected == []C16_StoredAreStrong /\ [][C16_Step]_vars

\* C16 witness: an unauthenticated connection holds the weak-username and the
\* weak-password error while another connection has registered
C16_Witness ==
    \E c, d \in Conns :
        /\ c \in clients /\ ~clientInfo[c].isAuthenticated /\ Idle(c)
        /\ ErrorPlaces(c, WeakUsernameError) # {}
        /\ ErrorPlaces(c, WeakPasswordError) # {}
        /\ UserIdsByName(RegisterOf(c)[1]) = {}
        /\ IsAuthed(d)
        /\ \A i \in 1..Len(outbox[d]) :
              outbox[d][i].type = "system" => outbox[d][i].uid # NoUser

\* the reply to a login that is refused
InvalidCredentials == "Login failed: Invalid username or password"

\* C15: a login that is refused, because the username does not exist or
\* because the password is wrong, is answered with one and the same error to
\* the acting connection alone and changes nothing else: no user row, no
\* session, no registry entry, no other outbox; so a connection that tries an
\* existing username with a wrong password and one that tries a missing
\* username hold the same frames after the same number of attempts.
C15_Step ==
    \A h \in H :
        (/\ h.pc = "login_lookup" /\ Resumes(h)
         /\ \/ UserIdsByName(h.name) = {}
            \/ \E i \in UserIdsByName(h.name) : ~BcryptCompare(h.pw, users[i].password_hash)) =>
            /\ Completes(h)
            /\ NewFrames(h.conn) = <<ErrorFrame(InvalidCredentials)>>
            /\ \A d \in Conns \ {h.conn} : outbox'[d] = outbox[d]
            /\ users' = users /\ sessions' = sessions /\ messages' = messages
            /\ clients' = clients /\ clientInfo' = clientInfo

C15_SameFrames ==
    \A c, d \in Conns :
        (c % 3 = 1 /\ d % 3 = 2 /\ Idle(c) /\ Idle(d) /\ Len(outbox[c]) = Len(outbox[d])) =>
            /\ outbox[c] = outbox[d]
            /\ clientInfo[c] = clientInfo[d]

C15_FailedLoginUndifferentiated == []C15_SameFrames /\ [][C15_Step]_vars

\* C15 witness: connection 1 (existing username, wrong password) and
\* connection 2 (missing username) hold the same frames, the last of them the
\* refusal, while connection 3 is logged in and holds no error
C15_Witness ==
    /\ Quiet
    /\ outbox[1] = outbox[2]
    /\ Len(outbox[1]) >= 2
    /\ outbox[1][Len(outbox[1])] = ErrorFrame(InvalidCredentials)
    /\ IsAuthed(3) /\ IsOpen(3)
    /\ \A i \in 1..Len(outbox[3]) : outbox[3][i].type # "error"

\* C18: when the handler of a broadcast reaches its fan-out, the frame is
\* passed to the socket of every other authenticated open connection, also
\* to those after a socket whose send throws; when the sender's own socket is
\* sound the handler ends with the confirmation to the sender, without an
\* error frame and without an exception leaving the handler.
C18_Step ==
    \A h \in H :
        (h.pc = "bc_save" /\ Completes(h) /\ Len(messages') = Len(messages) + 1) =>
            LET A == h.conn
                k == Len(messages')
                f == BroadcastFrame(h.content, k, clientInfo[A].userId)
            IN /\ \A c \in Conns \ {A} :
                     NewFrames(c) = IF IsAuthed(c) /\ IsOpen(c) THEN <<Sent(c, f)>> ELSE <<>>
               /\ (IsOpen(A) /\ A \notin broken) =>
                     /\ NewFrames(A) = <<Confirmation(k)>>
                     /\ unhandled' = unhandled

C18_FailedSendDoesNotAbortFanOut == [][C18_Step]_vars

\* C18 witness: the send of a broadcast to connection 2 failed, connection 3
\* was sent it all the same, and connection 1, the sender, holds the
\* confirmation and no error
C18_Witness ==
    \E k \in 1..Len(messages) :
        /\ \E p \in Places(2, "broadcast", k) : ~outbox[2][p].ok
        /\ \E p \in Places(3, "broadcast", k) : outbox[3][p].ok
        /\ \E p \in Places(1, "confirmation", k) : outbox[1][p].ok
        /\ \A i \in 1..Len(outbox[1]) : outbox[1][i].type # "error"
        /\ ~unhandled

\* C19 (as claimed): a second call of handleClose for a connection the first
\* call has removed changes nothing that can be observed: no frame is sent,
\* the registry and the counters the hub reports are as they were, and no
\* exception escapes.
C19_SecondCloseChangesNothing ==
    [][\A c \in Conns :
        (c \notin clients /\ CloseAgain(c)) =>
            /\ outbox' = outbox
            /\ clients' = clients
            /\ stats' = stats
            /\ unhandled' = unhandled]_vars

\* the stored messages in the order in which they were appended
AppendOrder == [i \in 1..Len(messages) |-> HistoryRow(i)]

\* C20 (as claimed): a get_history issued after three broadcasts have been
\* stored, and answered with no other broadcast in between, returns exactly
\* those three messages, oldest first, with their content and sender.
C20_HistoryOldestFirst ==
    [][\A h \in H :
        (h.pc = "hist_get" /\ Completes(h) /\ Len(messages) = 3 /\ IsOpen(h.conn)) =>
            NewFrames(h.conn) = <<HistoryFrame("Message history retrieved", AppendOrder)>>]_vars

(* ------------------------------- C21 ---------------------------------- *)
\* C21 (as claimed): once shutdown has released the listener no connection
\* is open any more, the registry is empty, and every user bound to an
\* authenticated connection has been marked offline in the store.
C21_ShutdownClosesEverything ==
    [](shut.pc = "released" =>
          /\ \A c \in Conns : readyState[c] # "OPEN"
          /\ clients = {}
          /\ \A c \in Conns : clientInfo[c].isAuthenticated => ~users[clientInfo[c].userId].is_online)

(* ------------------------------- C22 ---------------------------------- *)
\* C22 (as claimed): whatever goes wrong while one connection is handled (a
\* rejected statement, an unknown frame, a send to that connection that
\* fails), the hub never starts to shut down.
C22_NoErrorIsFatal == [](shut.pc = "running")

(* ------------------------------- C23 ---------------------------------- *)
\* the connections a fan-out of sender c reaches: registered, authenticated
\* and open, c excepted
Recipients(c) == {d \in clients \ {c} : clientInfo[d].isAuthenticated /\ IsOpen(d)}

\* C23: when the handler of a broadcast, or the last stage of a login,
\* resumes after the transport of its connection has closed, it runs to its
\* end: the message is stored, every other connection that is registered,
\* authenticated and open is sent exactly the frame of the fan-out, no other
\* connection is sent anything, and the closed connection is delivered
\* nothing.
C23_Step ==
    \A h \in H :
        (readyState[h.conn] = "CLOSED" /\ Resumes(h) /\ h.pc \in {"bc_save", "login_history"}) =>
            LET c == h.conn
                f == IF h.pc = "bc_save"
                     THEN BroadcastFrame(h.content, Len(messages'), h.uid)
                     ELSE JoinFrame(h.uid)
            IN /\ Completes(h)
               /\ h.pc = "bc_save" => Len(messages') = Len(messages) + 1
               /\ \A d \in Recipients(c) : NewFrames(d) = <<f>>
               /\ \A d \in Conns \ (Recipients(c) \cup {c}) : NewFrames(d) = <<>>
               /\ \A i \in 1..Len(NewFrames(c)) : ~NewFrames(c)[i].ok

C23_ClosedSenderStillFansOut == [][C23_Step]_vars

\* C23 witness: a connection whose user is bound to no other connection has
\* closed and left the registry, and after its leave notice another
\* connection was delivered a broadcast of that user
C23_Witness ==
    \E c \in Conns, d \in Conns :
        /\ c # d /\ readyState[c] = "CLOSED" /\ c \notin clients
        /\ clientInfo[c].isAuthenticated
        /\ \A e \in Conns \ {c} : clientInfo[e].userId # clientInfo[c].userId
        /\ \E p, q \in 1..Len(outbox[d]) :
              /\ p < q
              /\ outbox[d][p] = LeaveFrame(clientInfo[c].userId)
              /\ outbox[d][q].type = "broadcast" /\ outbox[d][q].ok
              /\ outbox[d][q].uid = clientInfo[c].userId

(* ------------------------------- C24 ---------------------------------- *)
\* C24: a connection whose transport has closed and whose entry close
\* handling has removed from the registry stays closed and stays out of the
\* registry, and no step changes its authentication state, whatever handler
\* of it (register, login, auth) is still in flight; so it is never counted
\* as authenticated again.
C24_Step ==
    \A c \in Conns :
        (readyState[c] = "CLOSED" /\ c \notin clients) =>
            /\ readyState'[c] = "CLOSED"
            /\ c \notin clients'
            /\ clientInfo'[c] = clientInfo[c]

C24_ClosedIsTerminal == [][C24_Step]_vars

\* C24 witness: an unauthenticated connection closed and was removed while
\* its login, registration or token handler was suspended; the handler then
\* passed the credential check and reached the update of the Map entry, and
\* the connection is still unauthenticated
C24_Witness ==
    \E c \in Conns :
        /\ readyState[c] = "CLOSED" /\ c \notin clients
        /\ ~clientInfo[c].isAuthenticated
        /\ \E i \in 1..Len(outbox[c]) :
              outbox[c][i].content \in
                  {"Login failed: Cannot set properties of undefined",
                   "Registration failed: Cannot set properties of undefined",
                   "Authentication failed: Cannot set properties of undefined"}

(* ------------------------------- C25 ---------------------------------- *)
\* the places of the auth_success frames that returned token t
ReturnedAt(t) ==
    UNION {{<<d, i>> : i \in {j \in 1..Len(outbox[d]) :
                outbox[d][j].type = "auth_success" /\ outbox[d][j].token = t}} : d \in Conns}

\* C25: when the handler of an auth command resumes from validateToken on a
\* registered, unauthenticated connection and the token was returned in an
\* auth_success frame of a registration or login, the connection becomes
\* authenticated, bound to the userId that frame carried, and the handler
\* goes on. When the token has no session the handler ends, no connection's
\* authentication state changes and an open connection is sent exactly one
\* error. A forged token and a missing token are answered at once with one
\* error, and nothing else changes.
C25_Step ==
    /\ \A h \in H :
          (h.pc = "auth_session" /\ Resumes(h)) =>
              LET c == h.conn
                  t == generateToken(h.uid, h.name)
              IN /\ (ReturnedAt(t) # {} /\ c \in clients /\ ~clientInfo[c].isAuthenticated) =>
                        /\ clientInfo'[c].isAuthenticated
                        /\ \A p \in ReturnedAt(t) : clientInfo'[c].userId = outbox[p[1]][p[2]].uid
                        /\ \A d \in Conns \ {c} : clientInfo'[d] = clientInfo[d]
                        /\ MovesOn(h, "auth_online")
                 /\ t \notin sessions =>
                        /\ clientInfo' = clientInfo
                        /\ Completes(h)
                        /\ IsOpen(c) /\ c \notin broken =>
                              outbox' = [outbox EXCEPT ![c] = Append(@,
                                  ErrorFrame("Authentication failed: Session expired or invalid"))]
    /\ \A c \in Conns : \A t \in {ForgedToken, NoToken} :
          RecvAuth(c, t) =>
              /\ clientInfo' = clientInfo /\ handlers' = handlers
              /\ Len(NewFrames(c)) = 1 /\ NewFrames(c)[1].type = "error"
              /\ \A d \in Conns \ {c} : NewFrames(d) = <<>>

C25_TokenAuthenticates == [][C25_Step]_vars

\* C25 witness: carol signed up on connection 3 and the token returned there
\* authenticated connection 2 as carol, which was welcomed; connection 1
\* presented a token without a session, was sent the error and is still
\* unauthenticated
C25_Witness ==
    /\ \E i \in 1..Len(outbox[3]) :
          /\ outbox[3][i].type = "auth_success"
          /\ outbox[3][i].content = "Registration successful"
          /\ outbox[3][i].token.userId = clientInfo[2].userId
          /\ outbox[3][i].uid = clientInfo[2].userId
    /\ IsAuthed(2) /\ clientInfo[2].username = "carol"
    /\ \E i \in 1..Len(outbox[2]) : outbox[2][i] = WelcomeFrame(clientInfo[2].userId)
    /\ 1 \in clients /\ ~clientInfo[1].isAuthenticated
    /\ ErrorPlaces(1, "Authentication failed: Session expired or invalid") # {}

(* ------------------------------- C26 ---------------------------------- *)
\* C26: receiving get_history or get_online_users sends nothing and changes
\* neither the registry, any connection's authentication state, nor the
\* store; when the handler resumes from its query it ends, the acting
\* connection is sent exactly one frame (the answer, or an error when the
\* query failed), no other connection is sent anything, and again the
\* registry, the authentication states and the store are unchanged.
C26_Step ==
    /\ \A c \in Conns :
          (RecvGetHistory(c) \/ RecvGetOnlineUsers(c)) =>
              /\ outbox' = outbox
              /\ UNCHANGED <<clients, clientInfo, messages, users, sessions>>
    /\ \A h \in H :
          (h.pc \in {"hist_get", "online_get"} /\ Resumes(h)) =>
              LET c == h.conn
                  answer == IF h.pc = "hist_get" THEN "message_history" ELSE "online_users"
              IN /\ Completes(h)
                 /\ Len(NewFrames(c)) = 1
                 /\ NewFrames(c)[1].type = IF nFaults' = nFaults THEN answer ELSE "error"
                 /\ \A d \in Conns \ {c} : NewFrames(d) = <<>>
                 /\ UNCHANGED <<clients, clientInfo, messages, users, sessions>>

C26_ReadsArePure == [][C26_Step]_vars

\* C26 witness: a connection was answered a history and a list of online
\* users, while another connection, authenticated and open, holds neither
C26_Witness ==
    \E c \in Conns, d \in Conns :
        /\ c # d /\ IsAuthed(d) /\ IsOpen(d)
        /\ \E i, j \in 1..Len(outbox[c]) :
              /\ outbox[c][i] = HistoryFrame("Message history retrieved", <<>>)
              /\ outbox[c][j].type = "online_users"
        /\ \A i \in 1..Len(outbox[d]) :
              /\ outbox[d][i].type # "online_users"
              /\ outbox[d][i].content # "Message history retrieved"

(* ------------------------------- C27 ---------------------------------- *)
\* C27 (as claimed): when the handler of a logout resumes from the update of
\* the online status, whether or not the update failed, the peer is sent
\* nothing, no error escapes, and every other connection that is registered,
\* authenticated and open is sent the leave notice.
C27_LogoutSendsLeaveNotice ==
    [][\A h \in H :
        (h.pc = "logout_online" /\ Resumes(h)) =>
            /\ Completes(h)
            /\ NewFrames(h.conn) = <<>>
            /\ unhandled' = unhandled
            /\ \A d \in Recipients(h.conn) : NewFrames(d) = <<LeaveFrame(h.uid)>>]_vars

(* ------------------------------- C28 ---------------------------------- *)
\* C28: in every state the info object of a connection either is
\* authenticated and bound to a row of the table users (its userId is the id
\* of the row, its username and displayName are the row's), or is exactly
\* the unbound object made at connect time. An info object changes only in a
\* step that resumes a handler of that connection right after its credential
\* was accepted, with no failed statement: a login or registration whose
\* password matches the stored hash of the user it binds, or an auth whose
\* token has a session.
C28_Bound ==
    \A c \in Conns :
        LET info == clientInfo[c]
        IN IF info.isAuthenticated
           THEN /\ info.userId \in 1..Len(users)
                /\ info.username = users[info.userId].username
                /\ info.displayName = users[info.userId].display_name
           ELSE info = NewInfo

C28_Step ==
    \A c \in Conns :
        clientInfo'[c] # clientInfo[c] =>
            \E h \in H :
                /\ h.conn = c /\ Resumes(h) /\ nFaults' = nFaults
                /\ clientInfo'[c].isAuthenticated /\ clientInfo'[c].userId = h.uid
                /\ h.uid \in 1..Len(users) /\ users[h.uid].username = h.name
                /\ \/ /\ h.pc \in {"login_session", "reg_session"}
                      /\ BcryptCompare(h.pw, users[h.uid].password_hash)
                   \/ /\ h.pc = "auth_session"
                      /\ generateToken(h.uid, h.name) \in sessions

C28_BoundOnlyAfterAuthentication == []C28_Bound /\ [][C28_Step]_vars

\* C28 witness: connection 1 is bound by a login and connection 3 by a token,
\* while connection 2, whose login with a wrong password was refused, is
\* registered and still unbound
C28_Witness ==
    /\ IsAuthed(1) /\ IsAuthed(3)
    /\ \E i \in 1..Len(outbox[1]) : outbox[1][i].content = "Login successful"
    /\ \E i \in 1..Len(outbox[3]) : outbox[3][i] = WelcomeFrame(clientInfo[3].userId)
    /\ 2 \in clients /\ clientInfo[2] = NewInfo
    /\ ErrorPlaces(2, "Login failed: Invalid username or password") # {}

(* ------------------------------- C29 ---------------------------------- *)
\* C29: in every state each broadcast frame passed to a connection carries
\* the id of a stored message with the frame's content and sender, and each
\* confirmation carries the id of a stored message of the user of the
\* connection that holds it. The confirmation follows the fan-out: the step
\* that passes a confirmation to the sender has passed the broadcast frame
\* with the same id to every other registered, authenticated, open
\* connection, and when the send to the sender throws, so that no
\* confirmation is sent, the fan-out of the stored message has taken place
\* all the same.
C29_Stored ==
    \A c \in Conns : \A i \in 1..Len(outbox[c]) :
        LET f == outbox[c][i]
        IN /\ f.type = "broadcast" =>
                /\ f.id \in 1..Len(messages)
                /\ messages[f.id].content = f.content
                /\ messages[f.id].sender_id = f.uid
           /\ f.type = "confirmation" =>
                /\ f.id \in 1..Len(messages)
                /\ messages[f.id].sender_id = clientInfo[c].userId

C29_Step ==
    /\ \A c \in Conns : \A i \in 1..Len(NewFrames(c)) :
          NewFrames(c)[i].type = "confirmation" =>
              /\ NewFrames(c)[i].id = Len(messages') /\ Len(messages') = Len(messages) + 1
              /\ \A d \in Recipients(c) :
                    \E j \in 1..Len(NewFrames(d)) :
                        /\ NewFrames(d)[j].type = "broadcast"
                        /\ NewFrames(d)[j].id = NewFrames(c)[i].id
    /\ \A h \in H :
          (h.pc = "bc_save" /\ Resumes(h) /\ Len(messages') = Len(messages) + 1
             /\ SendThrows(h.conn)) =>
              /\ NewFrames(h.conn) = <<>>
              /\ \A d \in Recipients(h.conn) :
                    NewFrames(d) = <<Sent(d, BroadcastFrame(h.content, Len(messages'), h.uid))>>

C29_ConfirmationFollowsFanOut == []C29_Stored /\ [][C29_Step]_vars

\* C29 witness: the socket of a sender whose user is bound to no other
\* connection has broken; a message of that user is stored for which the
\* sender holds no confirmation and which another connection was delivered;
\* and an earlier message of the same sender was confirmed and delivered
C29_Witness ==
    \E A \in broken, d \in Conns \ broken, j, k \in 1..Len(messages) :
        /\ A # d /\ j < k
        /\ \A e \in Conns \ {A} : clientInfo[e].userId # clientInfo[A].userId
        /\ messages[j].sender_id = clientInfo[A].userId
        /\ messages[k].sender_id = clientInfo[A].userId
        /\ Places(A, "confirmation", j) # {} /\ Places(d, "broadcast", j) # {}
        /\ Places(A, "confirmation", k) = {} /\ Places(d, "broadcast", k) # {}

(* ------------------------------- C30 ---------------------------------- *)
\* the connections that are passed a frame of a fan-out by the step
FannedTo ==
    {d \in Conns : \E i \in 1..Len(NewFrames(d)) : IsFanOut(NewFrames(d)[i])}

\* C30: a fan-out is one step. The step in which a handler reaches its
\* fan-out (a stored broadcast, the join notice of a login, the leave notice
\* of a close) passes the frame to exactly the connections that are
\* registered, authenticated and open in the state before the step, the
\* sender excepted, once each and the same frame to all; frames of a fan-out
\* are passed in no other step; and in that step no other connection enters
\* or leaves the registry, changes its authentication state or its
\* readyState.
C30_Step ==
    /\ \A h \in H :
          (Resumes(h) /\ (h.pc \in {"login_history", "close_online"}
                            \/ (h.pc = "bc_save" /\ Len(messages') = Len(messages) + 1))) =>
              FannedTo = Recipients(h.conn)
    /\ FannedTo # {} =>
          \E h \in H :
              /\ Resumes(h) /\ FannedTo = Recipients(h.conn)
              /\ \A d \in FannedTo, e \in FannedTo :
                    Len(NewFrames(d)) = 1 /\ NewFrames(d) = NewFrames(e)
              /\ \A d \in Conns \ {h.conn} : (d \in clients') = (d \in clients)
              /\ clientInfo' = clientInfo /\ readyState' = readyState

C30_FanOutPassIsAtomic == [][C30_Step]_vars

\* C30 witness: while the close handler of an authenticated connection was
\* suspended, and a third connection was registered but not authenticated, a
\* broadcast was passed to the one connection eligible at that instant:
\* the closing connection holds an earlier broadcast and not this one, and
\* the unauthenticated one holds no frame of a fan-out
C30_Witness ==
    \E c \in Conns, d \in Conns, e \in Conns, j, k \in 1..Len(messages) :
        /\ c # d /\ c # e /\ d # e /\ j < k
        /\ \E h \in H : h.pc = "close_online" /\ h.conn = c
        /\ c \in clients /\ readyState[c] = "CLOSED"
        /\ Places(c, "broadcast", j) # {} /\ Places(c, "broadcast", k) = {}
        /\ Places(d, "broadcast", k) # {}
        /\ e \in clients /\ IsOpen(e) /\ ~clientInfo[e].isAuthenticated
        /\ \A i \in 1..Len(outbox[e]) : ~IsFanOut(outbox[e][i])

(* ------------------------------- C31 ---------------------------------- *)
\* C31 (as claimed): whenever no handler is in flight, a user is marked
\* online in the store if and only if some connection of the registry is
\* authenticated as that user.
C31_OnlineIffBound ==
    Quiet =>
        \A u \in 1..Len(users) :
            users[u].is_online <=>
                \E c \in clients : clientInfo[c].isAuthenticated /\ clientInfo[c].userId = u

(* ------------------------------- C32 ---------------------------------- *)
\* C32 (as claimed): no connection is delivered a message both as a live
\* broadcast frame and as a row of the message history sent to it after its
\* login.
C32_NoMessageTwice ==
    \A c \in Conns : \A i \in 1..Len(outbox[c]), j \in 1..Len(outbox[c]) :
        (/\ outbox[c][i].type = "broadcast" /\ outbox[c][i].ok
         /\ outbox[c][j] = [outbox[c][j] EXCEPT !.type = "message_history",
                                                !.content = "Recent messages", !.ok = TRUE]) =>
            \A p \in 1..Len(outbox[c][j].msgs) : outbox[c][j].msgs[p].id # outbox[c][i].id

(* ------------------------------- C33 ---------------------------------- *)
\* the connections whose account no other connection uses: the join and
\* leave notices that name their user are about them
SoleConns == {c \in Conns : \A d \in Conns \ {c} : LoginOf(d) # LoginOf(c)}

\* the join and leave notices naming user u among the frames sent to d
Notices(d, u) ==
    SelectSeq(outbox[d], LAMBDA f : f.uid = u /\ f \in {JoinFrame(u), LeaveFrame(u)})

\* C33 (as claimed): the join and leave notices fanned out about a
\* connection alternate, so a peer that stays open and authenticated is
\* never sent two join notices in a row or two leave notices in a row about
\* a connection that is the only one of its user.
C33_NoticesAlternate ==
    \A c \in SoleConns : \A d \in Conns \ {c} :
        \A u \in UserIdsByName(LoginOf(c)[1]) :
            \A i \in 1..(Len(Notices(d, u)) - 1) : Notices(d, u)[i] # Notices(d, u)[i + 1]

(* ------------------------------- C34 ---------------------------------- *)
\* C34 (as claimed): where the only commands are register, login and auth,
\* each sent on a connection that is not authenticated, a step that answers
\* a connection with an error message leaves its info object as it was at
\* connect time, and the connection has been sent no auth_success.
C34_ErrorLeavesUnauthenticated ==
    [][\A c \in Conns :
        (\E i \in 1..Len(NewFrames(c)) : NewFrames(c)[i].type = "error" /\ NewFrames(c)[i].ok) =>
            /\ clientInfo'[c] = NewInfo
            /\ \A j \in 1..Len(outbox'[c]) :
                  ~(outbox'[c][j].type = "auth_success" /\ outbox'[c][j].ok)]_vars

(* ------------------------------- C35 ---------------------------------- *)
\* C35 (as claimed): when the append of a broadcast resolves, the message
\* is stored under the user that was bound to the sending connection when
\* the broadcast was received, and every broadcast frame fanned out carries
\* that user, whatever the connection did while the append was pending.
C35_SenderIsAuthor ==
    [][\A h \in H :
        (h.pc = "bc_save" /\ Resumes(h) /\ Len(messages') = Len(messages) + 1) =>
            /\ messages'[Len(messages')].sender_id = h.uid
            /\ \A d \in Conns : \A i \in 1..Len(NewFrames(d)) :
                  NewFrames(d)[i].type = "broadcast" =>
                      NewFrames(d)[i].uid = messages'[Len(messages')].sender_id]_vars

(* ------------------------------- C36 ---------------------------------- *)
\* the answers to broadcasts that connection c was sent: confirmations and
\* reports of a failed save
AnswerCount(c) ==
    Cardinality({i \in 1..Len(outbox[c]) :
        /\ outbox[c][i].ok
        /\ \/ outbox[c][i].type = "confirmation"
           \/ outbox[c][i] = ErrorFrame("Failed to save message")})

\* the step answers the broadcast of handler h with exactly one frame: the
\* confirmation of the stored message, or the report of the failed save
C36_OneAnswer(h) ==
    /\ Completes(h)
    /\ Len(NewFrames(h.conn)) = 1
    /\ NewFrames(h.conn)[1] =
          IF Len(messages') = Len(messages) + 1
          THEN Confirmation(Len(messages'))
          ELSE ErrorFrame("Failed to save message")

\* C36 (as claimed): the handler of every broadcast with content of an
\* authenticated connection resumes in the end, and when it does it answers
\* the sender with exactly one frame, the confirmation or the error.
C36_AlwaysAnswered ==
    /\ [][\A h \in H : (h.pc = "bc_save" /\ Resumes(h)) => C36_OneAnswer(h)]_vars
    /\ \A c \in Conns : Appending(c) ~> ~Appending(c)

\* C36: the handler of every broadcast with content of an authenticated
\* connection resumes in the end, and when it does while the socket of the
\* sender is open and sound, it answers the sender with exactly one frame,
\* the confirmation or the error.
C36_AnsweredWhileOpen ==
    /\ [][\A h \in H :
             (h.pc = "bc_save" /\ Resumes(h) /\ IsOpen(h.conn) /\ h.conn \notin broken) =>
                 C36_OneAnswer(h)]_vars
    /\ \A c \in Conns : Appending(c) ~> ~Appending(c)

\* a sender holds the confirmation of one broadcast and the report of the
\* failed save of another
C36_Witness ==
    \E c \in Conns :
        /\ IsOpen(c) /\ c \notin broken
        /\ AnswerCount(c) = 2
        /\ \E i \in 1..Len(outbox[c]) : outbox[c][i] = ErrorFrame("Failed to save message")
        /\ \E i \in 1..Len(outbox[c]) : outbox[c][i].type = "confirmation"

(* ------------------------------- C37 ---------------------------------- *)
\* C37: a call of broadcastToAll sends its payload, once, to every
\* connection of the registry that is open and authenticated, whichever of
\* them caused the call, and sends nothing to a connection that is not
\* authenticated, not open or not in the registry.
C37_Step ==
    CallBroadcastToAll(Announcement) =>
        \A c \in Conns :
            NewFrames(c) = IF IsAuthed(c) /\ IsOpen(c) THEN <<Announcement>> ELSE <<>>

C37_BroadcastToAllReachesAuthenticated == [][C37_Step]_vars

\* the announcement is the last frame sent to an authenticated open
\* connection, while an authenticated connection that has closed and is
\* still in the registry and an open connection that is not authenticated
\* hold none
C37_Witness ==
    /\ \E c \in Conns, d \in Conns :
          /\ c # d /\ IsAuthed(c) /\ IsAuthed(d) /\ IsOpen(c)
          /\ Announcement = outbox[c][Len(outbox[c])]
          /\ ~IsOpen(d) /\ \A i \in 1..Len(outbox[d]) : outbox[d][i] # Announcement
    /\ \E e \in clients :
          /\ IsOpen(e) /\ ~clientInfo[e].isAuthenticated
          /\ \A i \in 1..Len(outbox[e]) : outbox[e][i] # Announcement

(* ------------------------------- C38 ---------------------------------- *)
\* C38 (as claimed): whenever a client has displayed every frame sent to it
\* and nothing of its own is on the way to the hub, its isAuthenticated flag
\* is the isAuthenticated flag of the registry entry of its connection.
C38_PeerAgreesWithHub ==
    \A c \in clients : InSync(c) => (peer[c].isAuthenticated = clientInfo[c].isAuthenticated)

(* ------------------------------- C39 ---------------------------------- *)
\* C39 (as claimed): whenever no close handler is suspended,
\* stats.currentConnections is the number of entries of the registry, and
\* it is not negative.
C39_CountMatchesRegistry ==
    ClosesInFlight = 0 =>
        /\ stats.currentConnections = Cardinality(clients)
        /\ stats.currentConnections >= 0
====
